---- MODULE Spec2Model ----
(***************************************************************************)
(* Valuation core of the portfolio tracker: the exchange-rate cache        *)
(* (fetchExchangeRates), the currency converter (convertCurrency) and the  *)
(* valuation functions built on them.                                      *)
(*                                                                         *)
(* Number representation.  JavaScript numbers are modelled as exact        *)
(* decimals: an amount is an integer count of thousandths (100.00 is       *)
(* 100000, 1.005 is 1005), a rate is an integer count of hundredths        *)
(* (3.65 is 365).  Quotients are kept as exact fractions until toFixed(2)  *)
(* rounds them.  The clock is in milliseconds, as Date.now().              *)
(***************************************************************************)
EXTENDS Integers, Sequences, FiniteSets, TLC

VARIABLES
    now,                 \* Date.now()
    ticks,               \* how many times the clock has advanced
    exchangeRatesCache,  \* module-level cache of currencyUtils.ts
    fetchCount,          \* upstream requests issued so far (global.fetch calls)
    call,                \* the in-flight call of each caller
    val,                 \* the valuation in progress
    assets,              \* PortfolioContext: the assets state
    totalValue,          \* PortfolioContext: the totalValue state
    dash,                \* what the Dashboard component last computed
    isAuthenticated,     \* PortfolioContext: the isAuthenticated state
    store,               \* the assets table with the purchases of each row
    run,                 \* the price runs in flight
    userOp,              \* the user operation in flight
    timer,               \* the autoRefresh effect: interval, closure, flag
    count,               \* refreshes and user operations started so far
    rsus,                \* PortfolioContext: the rsus state
    rsuStore,            \* the rsus table and the vesting_entries table
    rsuOp,               \* the RSU operation in flight
    espps,               \* PortfolioContext: the espps state
    esppStore,           \* the espps table
    esppOp,              \* the last submit of EsppForm
    selectedCurrency,    \* PortfolioContext: the selectedCurrency state
    calc,                \* calculateTotal: last dependencies, calls in flight
    chart                \* AllocationChart: allocationBy and the data state

\* The state of the valuation core and the state of the portfolio context.
coreVars == <<now, ticks, exchangeRatesCache, fetchCount, call, val>>

providerVars == <<isAuthenticated, store, run, userOp, timer, count>>

rsuVars == <<rsus, rsuStore, rsuOp>>

esppVars == <<espps, esppStore, esppOp>>

totalVars == <<selectedCurrency, calc>>

chartVars == <<chart>>

contextVars ==
    <<assets, totalValue, dash, providerVars, rsuVars, esppVars, totalVars,
      chartVars>>

vars == <<coreVars, contextVars>>

(***************************************************************************)
(* Bounds of the model                                                     *)
(***************************************************************************)
MaxTicks == 3
MaxFetches == 3
MaxLots == 2
MaxAssets == 2
MaxRefreshes == 1
MaxUserOps == 1
MaxRsus == 2
MaxRsuOps == 2
MaxEspps == 2
MaxEsppOps == 2
MaxSignIns == 2
MaxCalcs == 2

Callers == {"c1", "c2"}

\* The clock advances by one of these amounts (ms).
TickSteps == {1, 3599999}

(***************************************************************************)
(* currencyUtils.ts: constants                                             *)
(***************************************************************************)
CACHE_DURATION_seconds == 60 * 60

CACHE_DURATION == 60 * 60 * 1000

\* A rate r is held as r * RateScale.
RateScale == 100

Currency ==
    {"USD", "ILS", "EUR", "GBP", "JPY", "CHF", "CAD", "AUD", "CNY", "HKD", "SGD"}

DEFAULT_RATES ==
    "USD" :> 100 @@ "ILS" :> 365 @@ "EUR" :> 85 @@ "GBP" :> 73 @@
    "JPY" :> 11000 @@ "CHF" :> 92 @@ "CAD" :> 125 @@ "AUD" :> 135 @@
    "CNY" :> 645 @@ "HKD" :> 778 @@ "SGD" :> 135

NoRates == [c \in {} |-> 0]

\* exchangeRatesCache = null
NULL == [set |-> FALSE, rates |-> NoRates, timestamp |-> 0]

(***************************************************************************)
(* The rates provider: what a response can carry                           *)
(***************************************************************************)
\* A live table, different from the defaults in every rate but USD.
LiveRates == "USD" :> 100 @@ "ILS" :> 370 @@ "EUR" :> 92

\* The table of the unit tests' mock: no EUR.
PartialRates == "USD" :> 100 @@ "ILS" :> 365

ProviderTables == {LiveRates, PartialRates}

\* How the fetch promise settles: rejected, resolved with !ok, resolved ok.
FetchOutcomes == {"reject", "notok", "ok"}

\* How response.json() settles: it rejects, or resolves with a body whose
\* rates member is missing, is not an object, or is a table.
JsonOutcomes ==
    {[kind |-> "jsonreject", rates |-> NoRates],
     [kind |-> "missing", rates |-> NoRates],
     [kind |-> "scalar", rates |-> NoRates]}
    \cup {[kind |-> "table", rates |-> t] : t \in ProviderTables}

(***************************************************************************)
(* Inputs of the calls                                                     *)
(***************************************************************************)
Amounts == {100000, 1005}
ArgCurrencies == {"USD", "ILS", "EUR"}

\* A currency code that is in no rate table, neither the provider's nor
\* DEFAULT_RATES.
UnknownCodes == {"BTC"}

\* Amounts converted there and back: 100.00, 1.005, 0.005, 36.495.
TripAmounts == {100000, 1005, 5, 36495}

\* Purchase lots: {price, quantity, currency}.
LotPool ==
    {[price |-> 100000, quantity |-> 10, currency |-> "USD"],
     [price |-> 110000, quantity |-> 5, currency |-> "USD"],
     [price |-> 365000, quantity |-> 5, currency |-> "ILS"]}

LotLists == UNION {[1..n -> LotPool] : n \in 0..MaxLots}

\* Holdings: the fields of Asset that the valuation reads.
Holdings ==
    [purchases : LotLists, currentPrice : {110000},
     tradingCurrency : {"USD", "ILS"}]

\* Lots for the average cost: one of them with a price of 100.004, which is
\* no whole number of cents.
AverageLotPool ==
    LotPool \cup {[price |-> 100004, quantity |-> 10, currency |-> "USD"]}

\* Holdings with at least one lot.
AverageHoldings ==
    [purchases : UNION {[1..n -> AverageLotPool] : n \in 1..MaxLots},
     currentPrice : {110000}, tradingCurrency : {"USD"}]

\* The holdings a portfolio is made of.
PortfolioPool ==
    {h \in Holdings :
        h.purchases \in {<<>>,
                         <<[price |-> 100000, quantity |-> 10, currency |-> "USD"],
                           [price |-> 110000, quantity |-> 5, currency |-> "USD"]>>,
                         <<[price |-> 365000, quantity |-> 5, currency |-> "ILS"]>>}}

\* The caller that runs the conversion of the i-th holding of a portfolio.
Slots == <<"c1", "c2">>

Portfolios == UNION {[1..n -> PortfolioPool] : n \in 0..Len(Slots)}

Targets == {"USD", "ILS"}

(***************************************************************************)
(* currencyUtils.ts: fetchExchangeRates                                    *)
(***************************************************************************)
\* The cache check with an age equal to CACHE_DURATION still counted as fresh.
CacheHit_inclusive(cache, t) ==
    cache.set /\ t - cache.timestamp <= CACHE_DURATION

\* The cache check: a table is cached and is younger than CACHE_DURATION.
CacheHit(cache, t) ==
    cache.set /\ t - cache.timestamp < CACHE_DURATION

\* The awaited fetch makes the try block throw: the promise rejects, or the
\* response is not ok.
FetchThrows(fo) ==
    fo \in {"reject", "notok"}

\* The awaited response.json() makes the try block throw: it rejects, or the
\* body fails the validation of data.rates.
JsonThrows(jo) ==
    \/ jo.kind = "jsonreject"
    \/ jo.kind = "missing"
    \/ jo.kind = "scalar"

\* A cache update that lays the new rates over the cached ones.
fetchExchangeRatesSettle_merging(cache, t, threw, rates) ==
    IF threw
    THEN [cache |-> cache, rates |-> DEFAULT_RATES, threw |-> FALSE]
    ELSE [cache |-> [set |-> TRUE,
                     rates |-> [c \in DOMAIN cache.rates \cup DOMAIN rates |->
                                   IF c \in DOMAIN rates THEN rates[c]
                                   ELSE cache.rates[c]],
                     timestamp |-> t],
          rates |-> rates, threw |-> FALSE]

\* A catch block that also stores the default table in the cache.
fetchExchangeRatesSettle_cachesDefault(cache, t, threw, rates) ==
    IF threw
    THEN [cache |-> [set |-> TRUE, rates |-> DEFAULT_RATES, timestamp |-> t],
          rates |-> DEFAULT_RATES, threw |-> FALSE]
    ELSE [cache |-> [set |-> TRUE, rates |-> rates, timestamp |-> t],
          rates |-> rates, threw |-> FALSE]

\* A catch block that passes the error on to the caller.
fetchExchangeRatesSettle_rethrows(cache, t, threw, rates) ==
    IF threw
    THEN [cache |-> cache, rates |-> NoRates, threw |-> TRUE]
    ELSE [cache |-> [set |-> TRUE, rates |-> rates, timestamp |-> t],
          rates |-> rates, threw |-> FALSE]

\* A catch block that remembers the failure: the cached table, if there is
\* one, is given the time of the failure and is served for another hour.
fetchExchangeRatesSettle_backsOff(cache, t, threw, rates) ==
    IF threw
    THEN [cache |-> IF cache.set THEN [cache EXCEPT !.timestamp = t]
                    ELSE cache,
          rates |-> DEFAULT_RATES, threw |-> FALSE]
    ELSE [cache |-> [set |-> TRUE, rates |-> rates, timestamp |-> t],
          rates |-> rates, threw |-> FALSE]

\* The end of the try block (cache update, return data.rates) or the catch
\* block (return DEFAULT_RATES), at time t.
fetchExchangeRatesSettle(cache, t, threw, rates) ==
    IF threw
    THEN [cache |-> cache, rates |-> DEFAULT_RATES, threw |-> FALSE]
    ELSE [cache |-> [set |-> TRUE, rates |-> rates, timestamp |-> t],
          rates |-> rates, threw |-> FALSE]

(***************************************************************************)
(* currencyUtils.ts: convertCurrency                                       *)
(***************************************************************************)
Abs(n) == IF n < 0 THEN -n ELSE n

\* The rounding to two decimals done by cutting the further decimals off.
toFixed2_truncated(n, d) ==
    LET cents == (Abs(n) \div d) \div 10
    IN  IF n < 0 THEN -(10 * cents) ELSE 10 * cents

\* Number((n / d).toFixed(2)) for d > 0, in thousandths: the nearest multiple
\* of 0.01, a tie going away from zero.
toFixed2(n, d) ==
    LET cents == ((Abs(n) \div d) + 5) \div 10
    IN  IF n < 0 THEN -(10 * cents) ELSE 10 * cents

\* rates[c] is truthy.
HasRate(rates, c) ==
    c \in DOMAIN rates /\ rates[c] # 0

\* The try block with the two rates exchanged: it multiplies by the rate of
\* the source currency and divides by the rate of the target currency.
convertCurrencyTry_inverted(rates, amount, from, to) ==
    IF ~HasRate(rates, from) \/ ~HasRate(rates, to)
    THEN [threw |-> TRUE, value |-> 0]
    ELSE LET outD == IF to = "USD" THEN RateScale ELSE rates[to]
             outN == IF from = "USD" THEN RateScale ELSE rates[from]
         IN  [threw |-> FALSE, value |-> toFixed2(amount * outN, outD)]

\* The try block of convertCurrency after the rates have arrived.  With r(c)
\* the rate of c, amountInUSD is amount or amount / r(from) and the converted
\* amount is amountInUSD or amountInUSD * r(to): the fraction
\* (amount * outN) / outD, the scale of the rates cancelling.
convertCurrencyTry(rates, amount, from, to) ==
    IF ~HasRate(rates, from) \/ ~HasRate(rates, to)
    THEN [threw |-> TRUE, value |-> 0]
    ELSE LET outD == IF from = "USD" THEN RateScale ELSE rates[from]
             outN == IF to = "USD" THEN RateScale ELSE rates[to]
         IN  [threw |-> FALSE, value |-> toFixed2(amount * outN, outD)]

\* convertCurrency without its catch block: the error leaves the function.
convertCurrencyWith_noCatch(rates, amount, from, to) ==
    convertCurrencyTry(rates, amount, from, to)

\* A catch block that returns 0 for a conversion that failed.
convertCurrencyWith_zero(rates, amount, from, to) ==
    LET r == convertCurrencyTry(rates, amount, from, to)
    IN  IF r.threw THEN [threw |-> FALSE, value |-> 0] ELSE r

\* convertCurrency from the arrival of the rates: the try block, and the catch
\* block returning the original amount.
convertCurrencyWith(rates, amount, from, to) ==
    LET r == convertCurrencyTry(rates, amount, from, to)
    IN  IF r.threw THEN [threw |-> FALSE, value |-> amount] ELSE r

(***************************************************************************)
(* Calls of fetchExchangeRates and convertCurrency                         *)
(***************************************************************************)
Idle ==
    [pc |-> "idle", op |-> "none", amount |-> 0, from |-> "USD", to |-> "USD",
     rates |-> NoRates, value |-> 0, issued |-> FALSE, threw |-> FALSE]

\* The call of caller c has its rates: fetchExchangeRates returns them, and
\* convertCurrency goes on to convert with them.
Returned(cl, rates, threw) ==
    IF cl.op = "convert" /\ ~threw
    THEN LET r == convertCurrencyWith(rates, cl.amount, cl.from, cl.to)
         IN  [cl EXCEPT !.pc = "done", !.rates = rates, !.value = r.value,
                        !.threw = r.threw]
    ELSE [cl EXCEPT !.pc = "done", !.rates = rates, !.threw = threw]

\* fetchExchangeRates up to its first await, for the call cl: the cached rates
\* are returned, or a fetch is issued.
fetchExchangeRatesEnter(cl) ==
    IF CacheHit(exchangeRatesCache, now)
    THEN Returned(cl, exchangeRatesCache.rates, FALSE)
    ELSE [cl EXCEPT !.pc = "fetching", !.issued = TRUE]

\* convertCurrency without the test fromCurrency === toCurrency.
convertCurrencyEnter_noShortCircuit(amount, from, to) ==
    fetchExchangeRatesEnter([Idle EXCEPT !.op = "convert", !.amount = amount,
                                         !.from = from, !.to = to])

\* convertCurrency(amount, from, to) up to its first await.
convertCurrencyEnter(amount, from, to) ==
    LET cl == [Idle EXCEPT !.op = "convert", !.amount = amount,
                           !.from = from, !.to = to]
    IN  IF from = to
        THEN [cl EXCEPT !.pc = "done", !.value = amount]
        ELSE fetchExchangeRatesEnter(cl)

\* The calls of new (caller -> call) start together; each one that did not
\* find a fresh cache has issued its own fetch.
Launch(new) ==
    LET n == Cardinality({c \in DOMAIN new : new[c].pc = "fetching"})
    IN  /\ fetchCount + n <= MaxFetches
        /\ fetchCount' = fetchCount + n
        /\ call' = [c \in Callers |->
                       IF c \in DOMAIN new THEN new[c] ELSE call[c]]

\* A caller calls fetchExchangeRates().
CallRates(c) ==
    /\ call[c].pc = "idle"
    /\ Launch(c :> fetchExchangeRatesEnter([Idle EXCEPT !.op = "rates"]))
    /\ UNCHANGED <<now, ticks, exchangeRatesCache, val>>
    /\ UNCHANGED contextVars

\* A caller calls convertCurrency(amount, from, to).
CallConvert(c, amount, from, to) ==
    /\ call[c].pc = "idle"
    /\ Launch(c :> convertCurrencyEnter(amount, from, to))
    /\ UNCHANGED <<now, ticks, exchangeRatesCache, val>>
    /\ UNCHANGED contextVars

\* The caller of a finished conversion converts the result back:
\* convertCurrency(await convertCurrency(x, A, B), B, A).
CallConvertBack ==
    /\ call["c1"].pc = "done" /\ call["c1"].op = "convert"
    /\ call["c2"].pc = "idle"
    /\ Launch("c2" :> convertCurrencyEnter(call["c1"].value, call["c1"].to,
                                           call["c1"].from))
    /\ UNCHANGED <<now, ticks, exchangeRatesCache, val>>
    /\ UNCHANGED contextVars

\* The caller takes the result of the conversion there and back.
RoundTripReturn ==
    /\ call["c1"].pc = "done" /\ call["c2"].pc = "done"
    /\ call' = [c \in Callers |-> Idle]
    /\ UNCHANGED <<now, ticks, exchangeRatesCache, fetchCount, val>>
    /\ UNCHANGED contextVars

\* The rest of fetchExchangeRates once the try block has thrown or reached its
\* cache update.
Settle(c, threw, rates) ==
    LET r == fetchExchangeRatesSettle(exchangeRatesCache, now, threw, rates)
    IN  /\ exchangeRatesCache' = r.cache
        /\ call' = [call EXCEPT ![c] = Returned(call[c], r.rates, r.threw)]

\* The fetch promise of caller c settles.
FetchSettles(c, fo) ==
    /\ call[c].pc = "fetching"
    /\ IF FetchThrows(fo)
       THEN Settle(c, TRUE, NoRates)
       ELSE /\ call' = [call EXCEPT ![c].pc = "parsing"]
            /\ UNCHANGED exchangeRatesCache
    /\ UNCHANGED <<now, ticks, fetchCount, val>>
    /\ UNCHANGED contextVars

\* The response.json() promise of caller c settles.
JsonSettles(c, jo) ==
    /\ call[c].pc = "parsing"
    /\ Settle(c, JsonThrows(jo), jo.rates)
    /\ UNCHANGED <<now, ticks, fetchCount, val>>
    /\ UNCHANGED contextVars

\* The caller takes the result; it may call again.
Return(c) ==
    /\ call[c].pc = "done"
    /\ call' = [call EXCEPT ![c] = Idle]
    /\ UNCHANGED <<now, ticks, exchangeRatesCache, fetchCount, val>>
    /\ UNCHANGED contextVars

\* Time passes.
Tick(d) ==
    /\ ticks < MaxTicks
    /\ ticks' = ticks + 1
    /\ now' = now + d
    /\ UNCHANGED <<exchangeRatesCache, fetchCount, call, val>>
    /\ UNCHANGED contextVars

(***************************************************************************)
(* dataFetching: calculateAverageCost, calculateTotalShares,               *)
(* calculateProfitLoss; PortfolioContext: calculateTotal                   *)
(***************************************************************************)
NoAsset == [purchases |-> <<>>, currentPrice |-> 0, tradingCurrency |-> "USD"]

NoVal ==
    [pc |-> "idle", fn |-> "none", asset |-> NoAsset, assets |-> <<>>,
     target |-> "USD", i |-> 0, totalCost |-> 0, totalShares |-> 0,
     converted |-> <<>>, shares |-> 0, avgCost |-> 0, currentValue |-> 0,
     result |-> 0, absolute |-> 0, percentage |-> 0]

RECURSIVE SumQuantity(_)
SumQuantity(purchases) ==
    IF purchases = <<>> THEN 0
    ELSE purchases[1].quantity + SumQuantity(Tail(purchases))

\* calculateTotalShares(asset)
calculateTotalShares(asset) ==
    SumQuantity(asset.purchases)

\* The value of a holding as calculateTotal's reduce took the number of lots
\* for the number of shares.
AssetValue_count(asset) ==
    asset.currentPrice * Len(asset.purchases)

\* calculateTotal: asset.currentPrice * asset.purchases.reduce(...)
AssetValue(asset) ==
    asset.currentPrice * SumQuantity(asset.purchases)

\* floor(n * 10^k / d) and the remainder, digit by digit (n >= 0, d > 0).
RECURSIVE DivDigits(_, _, _)
DivDigits(n, d, k) ==
    IF k = 0 THEN [q |-> n \div d, r |-> n % d]
    ELSE LET p == DivDigits(n, d, k - 1)
         IN  [q |-> 10 * p.q + ((10 * p.r) \div d), r |-> (10 * p.r) % d]

\* Number((diff / base * 100).toFixed(2)) for base > 0, in thousandths of a
\* percent.
percentOf(diff, base) ==
    LET p == DivDigits(Abs(diff), base, 4)
        hundredths == p.q + (IF 2 * p.r >= base THEN 1 ELSE 0)
    IN  IF diff < 0 THEN -(10 * hundredths) ELSE 10 * hundredths

\* The end of calculateAverageCost without the rounding of the quotient.
averageOf_truncated(totalCost, totalShares) ==
    IF totalShares > 0 THEN totalCost \div totalShares ELSE 0

\* The end of calculateAverageCost with the quotient rounded up to the next
\* cent.
averageOf_roundedUp(totalCost, totalShares) ==
    IF totalShares > 0
    THEN 10 * ((totalCost + 10 * totalShares - 1) \div (10 * totalShares))
    ELSE 0

\* The end of calculateAverageCost:
\* totalShares > 0 ? Number((totalCost / totalShares).toFixed(2)) : 0
averageOf(totalCost, totalShares) ==
    IF totalShares > 0 THEN toFixed2(totalCost, totalShares) ELSE 0

\* The percentage of calculateProfitLoss computed on the current value.
profitLossOf_onCurrent(currentValue, avgCost, totalShares) ==
    [absolute |-> toFixed2((currentValue - avgCost) * totalShares, 1),
     percentage |-> IF currentValue > 0
                    THEN percentOf(currentValue - avgCost, currentValue)
                    ELSE 0]

\* The end of calculateProfitLoss: absolute and percentage.
profitLossOf(currentValue, avgCost, totalShares) ==
    [absolute |-> toFixed2((currentValue - avgCost) * totalShares, 1),
     percentage |-> IF avgCost > 0
                    THEN percentOf(currentValue - avgCost, avgCost)
                    ELSE 0]

\* The conversion of lot i of the valuation v starts.
LotConversion(v, i) ==
    LET lot == v.asset.purchases[i]
    IN  "c1" :> convertCurrencyEnter(lot.price, lot.currency, v.target)

ValuationFree ==
    val.pc = "idle" /\ \A c \in Callers : call[c].pc = "idle"

\* calculateAverageCost(h, t) is called.
StartAverageCost(h, t) ==
    /\ ValuationFree
    /\ LET v == [NoVal EXCEPT !.fn = "avg", !.asset = h, !.target = t]
       IN  IF Len(h.purchases) = 0
           THEN /\ val' = [v EXCEPT !.pc = "done", !.result = 0]
                /\ UNCHANGED <<call, fetchCount>>
           ELSE /\ val' = [v EXCEPT !.pc = "lots", !.i = 1]
                /\ Launch(LotConversion(v, 1))
    /\ UNCHANGED <<now, ticks, exchangeRatesCache>>
    /\ UNCHANGED contextVars

\* calculateProfitLoss(h, t) is called: it returns at once for a holding of no
\* shares, and calls calculateAverageCost otherwise.
StartProfitLoss(h, t) ==
    /\ ValuationFree
    /\ LET v == [NoVal EXCEPT !.fn = "pl", !.asset = h, !.target = t,
                              !.shares = calculateTotalShares(h)]
       IN  IF v.shares = 0
           THEN /\ val' = [v EXCEPT !.pc = "done"]
                /\ UNCHANGED <<call, fetchCount>>
           ELSE /\ val' = [v EXCEPT !.pc = "lots", !.i = 1]
                /\ Launch(LotConversion(v, 1))
    /\ UNCHANGED <<now, ticks, exchangeRatesCache>>
    /\ UNCHANGED contextVars

\* The conversion of a lot's price has returned: the loop body of
\* calculateAverageCost, then the next conversion or the end of the loop.
LotConverted ==
    /\ val.pc = "lots"
    /\ call["c1"].pc = "done"
    /\ LET lot == val.asset.purchases[val.i]
           cost == val.totalCost + call["c1"].value * lot.quantity
           shares == val.totalShares + lot.quantity
           v == [val EXCEPT !.totalCost = cost, !.totalShares = shares,
                            !.converted = Append(@, call["c1"].value)]
           avg == IF call["c1"].threw THEN 0 ELSE averageOf(cost, shares)
       IN  IF val.i < Len(val.asset.purchases) /\ ~call["c1"].threw
           THEN /\ val' = [v EXCEPT !.i = val.i + 1]
                /\ Launch(LotConversion(v, val.i + 1))
           ELSE IF val.fn = "avg"
           THEN /\ val' = [v EXCEPT !.pc = "done", !.result = avg]
                /\ UNCHANGED <<call, fetchCount>>
           ELSE /\ val' = [v EXCEPT !.pc = "current", !.avgCost = avg]
                /\ Launch("c1" :> convertCurrencyEnter(val.asset.currentPrice,
                                      val.asset.tradingCurrency, val.target))
    /\ UNCHANGED <<now, ticks, exchangeRatesCache>>
    /\ UNCHANGED contextVars

\* The conversion of the current price has returned: the end of
\* calculateProfitLoss.
CurrentConverted ==
    /\ val.pc = "current"
    /\ call["c1"].pc = "done"
    /\ LET r == IF call["c1"].threw
                THEN [absolute |-> 0, percentage |-> 0]
                ELSE profitLossOf(call["c1"].value, val.avgCost, val.shares)
       IN  val' = [val EXCEPT !.pc = "done",
                              !.currentValue = call["c1"].value,
                              !.absolute = r.absolute,
                              !.percentage = r.percentage]
    /\ UNCHANGED <<now, ticks, exchangeRatesCache, fetchCount, call>>
    /\ UNCHANGED contextVars

\* calculateTotal for the holdings as and the selected currency t: the
\* conversions of all holdings start together (Promise.all over assets.map).
StartTotal(as, t) ==
    /\ ValuationFree
    /\ val' = [NoVal EXCEPT !.pc = "total", !.fn = "total", !.assets = as,
                            !.target = t]
    /\ Launch([c \in {Slots[i] : i \in 1..Len(as)} |->
                  LET i == CHOOSE j \in 1..Len(as) : Slots[j] = c
                  IN  convertCurrencyEnter(AssetValue(as[i]),
                                           as[i].tradingCurrency, t)])
    /\ UNCHANGED <<now, ticks, exchangeRatesCache>>
    /\ UNCHANGED contextVars

RECURSIVE SumValues(_)
SumValues(n) ==
    IF n = 0 THEN 0 ELSE SumValues(n - 1) + call[Slots[n]].value

\* All conversions of calculateTotal have returned: the values are added up
\* and stored (setTotalValue); a conversion that threw leaves no total.
TotalConverted ==
    /\ val.pc = "total"
    /\ \A i \in 1..Len(val.assets) : call[Slots[i]].pc = "done"
    /\ IF \E i \in 1..Len(val.assets) : call[Slots[i]].threw
       THEN val' = [val EXCEPT !.pc = "done"]
       ELSE val' = [val EXCEPT !.pc = "done",
                               !.result = SumValues(Len(val.assets))]
    /\ UNCHANGED <<now, ticks, exchangeRatesCache, fetchCount, call>>
    /\ UNCHANGED contextVars

\* The result of the valuation is taken.
ValuationReturn ==
    /\ val.pc = "done"
    /\ val' = NoVal
    /\ call' = [c \in Callers |-> Idle]
    /\ UNCHANGED <<now, ticks, exchangeRatesCache, fetchCount>>
    /\ UNCHANGED contextVars

(***************************************************************************)
(* Dashboard.tsx: the daily change of the portfolio                        *)
(***************************************************************************)
\* The fields of Asset that the Dashboard reads: the two prices of the
\* scenario holding, a holding that did not move and one that fell.
DashboardHoldings ==
    {[purchases |-> ls, currentPrice |-> p[1], previousPrice |-> p[2]] :
        ls \in LotLists,
        p \in {<<187320, 185920>>, <<110000, 110000>>, <<100000, 110000>>}}

DashboardPortfolios == UNION {[1..n -> DashboardHoldings] : n \in 0..2}

\* The values of the totalValue state the component is rendered with.
TotalValues == {0, 1000000, 2809800}

\* Nothing rendered yet.
NoDash ==
    [rendered |-> FALSE, dailyChange |-> 0,
     dailyChangePercent |-> [num |-> 0, den |-> 1]]

\* The daily change with the lots counted instead of their quantities added.
RECURSIVE dailyChangeOf_count(_)
dailyChangeOf_count(as) ==
    IF as = <<>> THEN 0
    ELSE LET asset == as[Len(as)]
             priceChange == asset.currentPrice - asset.previousPrice
         IN  dailyChangeOf_count(SubSeq(as, 1, Len(as) - 1))
                 + priceChange * Len(asset.purchases)

\* assets.reduce((sum, asset) => sum + priceChange * totalShares, 0)
RECURSIVE dailyChangeOf(_)
dailyChangeOf(as) ==
    IF as = <<>> THEN 0
    ELSE LET asset == as[Len(as)]
             totalShares == SumQuantity(asset.purchases)
             priceChange == asset.currentPrice - asset.previousPrice
         IN  dailyChangeOf(SubSeq(as, 1, Len(as) - 1))
                 + priceChange * totalShares

\* totalValue > 0 ? (dailyChange / totalValue) * 100 : 0, as a fraction.
dailyChangePercentOf(dailyChange, total) ==
    IF total > 0 THEN [num |-> dailyChange * 100, den |-> total]
    ELSE [num |-> 0, den |-> 1]

\* The component renders with the assets and the totalValue of the context.
DashboardRender ==
    /\ ~dash.rendered
    /\ dash' = [rendered |-> TRUE,
                dailyChange |-> dailyChangeOf(assets),
                dailyChangePercent |->
                    dailyChangePercentOf(dailyChangeOf(assets), totalValue)]
    /\ UNCHANGED <<coreVars, chartVars, totalVars, esppVars, rsuVars, assets,
                   totalValue,
                   providerVars>>

(***************************************************************************)
(* PortfolioContext.tsx and dataFetching: the holdings and their prices    *)
(*                                                                         *)
(* An Asset is held with the fields the operations below read or write:    *)
(* id, exchange, currentPrice, previousPrice, currentPriceOverwritten,     *)
(* purchases.  The store is the assets table with the purchases of each    *)
(* row.                                                                    *)
(***************************************************************************)
AssetIds == 1..MaxAssets

Exchanges == {"NASDAQ", "TASE"}

\* No row with this id.
NoRow ==
    [present |-> FALSE, exchange |-> "NASDAQ", current_price |-> 0,
     previous_price |-> 0, current_price_overwritten |-> FALSE,
     purchases |-> <<>>]

\* What an earlier session left in the store: one holding with one lot.
PersistedRow ==
    [present |-> TRUE, exchange |-> "NASDAQ", current_price |-> 110000,
     previous_price |-> 100000, current_price_overwritten |-> FALSE,
     purchases |-> <<[price |-> 100000, quantity |-> 10, currency |-> "USD"]>>]

PersistedStore ==
    [rows |-> [id \in AssetIds |-> IF id = 1 THEN PersistedRow ELSE NoRow],
     nextId |-> 2]

\* fetchData: the Asset made of a row.
transformedAsset(id, row) ==
    [id |-> id, exchange |-> row.exchange,
     currentPrice |-> row.current_price,
     previousPrice |-> row.previous_price,
     currentPriceOverwritten |-> row.current_price_overwritten,
     purchases |-> row.purchases]

\* select('*, purchases(*)'): the rows of the table, in id order.
RECURSIVE selectAssets(_, _)
selectAssets(rows, id) ==
    IF id > MaxAssets THEN <<>>
    ELSE (IF rows[id].present THEN <<transformedAsset(id, rows[id])>> ELSE <<>>)
         \o selectAssets(rows, id + 1)

\* What the quote request of one holding comes to: a chart result with the
\* market price and the previous close (in agorot for TASE), a response
\* without a chart result, or a failed request.  changePercent is the draw of
\* Math.random() * 4 - 2 that fetchLatestPrices makes when it has no quote,
\* in tenths of a percent.
RandomChanges == {-20, 15}

QuoteOutcomes ==
    {[kind |-> "chart", changePercent |-> 0], [kind |-> "error", changePercent |-> 0]}
    \cup {[kind |-> "nodata", changePercent |-> cp] : cp \in RandomChanges}

\* meta.regularMarketPrice and meta.chartPreviousClose of a chart result.
regularMarketPrice(exchange) ==
    IF exchange = "TASE" THEN 12000000 ELSE 120000

chartPreviousClose(exchange) ==
    IF exchange = "TASE" THEN 11000000 ELSE 110000

\* price / 100.  A quotient that is no whole number of thousandths is cut;
\* within the bounds of the model every quotient is whole.
agorotToShekels(price) ==
    price \div 100

\* fetchYahooStockQuote with a chart result: the quote of the holding.
stockQuote(exchange) ==
    IF exchange = "TASE"
    THEN [price |-> agorotToShekels(regularMarketPrice(exchange)),
          previousClose |-> agorotToShekels(chartPreviousClose(exchange))]
    ELSE [price |-> regularMarketPrice(exchange),
          previousClose |-> chartPreviousClose(exchange)]

\* fetchLatestPrices, the callback of assets.map for a quote request that did
\* not throw: the prices of the quote, or a simulated price change.
latestPriceOf(asset, qo) ==
    IF qo.kind = "chart"
    THEN [asset EXCEPT !.currentPrice = stockQuote(asset.exchange).price,
                       !.previousPrice = stockQuote(asset.exchange).previousClose]
    ELSE [asset EXCEPT !.previousPrice = asset.currentPrice,
                       !.currentPrice =
                           toFixed2(asset.currentPrice * (1000 + qo.changePercent),
                                    1000)]

\* fetchLatestPrices(assets) with the outcomes qos of its quote requests: a
\* request that throws rejects Promise.all, and the catch returns assets.
fetchLatestPrices(as, qos) ==
    IF \E i \in 1..Len(as) : qos[i].kind = "error"
    THEN as
    ELSE [i \in 1..Len(as) |-> latestPriceOf(as[i], qos[i])]

\* A price run: fetchLatestPrices over currentAssets, the write of the
\* prices to the store, setAssets.  fetchData ("load"), refreshPrices called
\* by the user ("manual") or by autoRefresh ("timer") and addAsset ("add")
\* each make one.
RunIds == {"load", "manual", "timer", "add"}

Refreshes == {"manual", "timer"}

NoRun ==
    [pc |-> "idle", currentAssets |-> <<>>, qos |-> <<>>, updated |-> <<>>,
     threw |-> FALSE]

\* The fields of AssetFormData and PurchaseFormData an operation is called
\* with; hasPrice and hasPurchases tell whether currentPrice and purchases
\* are defined.
NoForm ==
    [exchange |-> "NASDAQ", hasPrice |-> FALSE, currentPrice |-> 0,
     currentPriceOverwritten |-> FALSE, hasPurchases |-> FALSE,
     purchases |-> <<>>]

NoUserOp ==
    [pc |-> "idle", op |-> "none", id |-> 0, form |-> NoForm,
     closure |-> <<>>, inserted |-> <<>>, threw |-> FALSE]

NewLot == [price |-> 110000, quantity |-> 5, currency |-> "USD"]

\* addAsset(newAsset): a TASE holding with one lot.
AddForms ==
    {[NoForm EXCEPT !.exchange = "TASE", !.hasPurchases = TRUE,
                    !.purchases = <<NewLot>>]}

\* updateAsset(id, updatedFields): a manual price, or new lots.
UpdateForms ==
    {[NoForm EXCEPT !.hasPrice = TRUE, !.currentPrice = 150000,
                    !.currentPriceOverwritten = TRUE],
     [NoForm EXCEPT !.hasPurchases = TRUE, !.purchases = <<NewLot, NewLot>>]}

\* A lot with no shares, as a new lot of AssetForm starts out.
ZeroLot == [price |-> 110000, quantity |-> 0, currency |-> "USD"]

\* addAsset(newAsset) with a lot that has no shares among the lots.
ZeroLotAddForms ==
    {[NoForm EXCEPT !.hasPurchases = TRUE, !.purchases = <<NewLot, ZeroLot>>]}

\* updateAsset(id, updatedFields) with lots of which one has no shares.
ZeroLotUpdateForms ==
    {[NoForm EXCEPT !.hasPurchases = TRUE, !.purchases = <<ZeroLot>>],
     [NoForm EXCEPT !.hasPurchases = TRUE, !.purchases = <<ZeroLot, NewLot>>]}

\* The purchases table takes a lot: CHECK (price > 0), CHECK (quantity > 0).
purchasesCheck(lot) ==
    lot.price > 0 /\ lot.quantity > 0

\* The lots that addAsset and updateAsset take from the answers of their
\* inserts: an insert that the table refused has no data and is left out
\* (.filter(Boolean), || []), its error unread.
insertedPurchases(lots) ==
    SelectSeq(lots, purchasesCheck)

\* The ids of the holdings of a list.
IdsOf(as) == {as[i].id : i \in 1..Len(as)}

\* The holding with this id in a list that has one.
AssetOf(as, id) == as[CHOOSE i \in 1..Len(as) : as[i].id = id]

\* refreshPrices: the prices of a TASE holding divided by 100.
updatedAssetWithTime(asset) ==
    IF asset.exchange = "TASE"
    THEN [asset EXCEPT !.currentPrice = agorotToShekels(asset.currentPrice),
                       !.previousPrice = agorotToShekels(asset.previousPrice)]
    ELSE asset

\* update({current_price, previous_price, last_updated}).eq('id', asset.id)
\* for every holding of a list: rows that exist take the prices.
updatePrices(rows, as) ==
    [id \in AssetIds |->
        IF rows[id].present /\ id \in IdsOf(as)
        THEN [rows[id] EXCEPT !.current_price = AssetOf(as, id).currentPrice,
                              !.previous_price = AssetOf(as, id).previousPrice]
        ELSE rows[id]]

\* A price run over no holdings: Promise.all of nothing resolves at once, no
\* request is made and the run goes through to its setAssets([]).
RunsThrough(as) == as = <<>>

\* checkAuth / onAuthStateChange with a session: setIsAuthenticated(true) and
\* fetchData(); the next render sets up the autoRefresh effect, whose
\* refreshPrices keeps the assets of that render, and makes the initial
\* autoRefresh() call.  One fetchData and one autoRefresh run at a time: the
\* runs of an earlier session have returned.
SignIn ==
    /\ ~isAuthenticated
    /\ run["load"].pc = "idle"
    /\ run["timer"].pc = "idle"
    /\ count.signIns < MaxSignIns
    /\ count' = [count EXCEPT !.signIns = @ + 1]
    /\ isAuthenticated' = TRUE
    /\ timer' = [set |-> TRUE, assets |-> assets,
                 isRefreshing |-> ~RunsThrough(assets)]
    /\ run' = [run EXCEPT
                  !["load"] = [NoRun EXCEPT !.pc = "reading"],
                  !["timer"] = IF RunsThrough(assets) THEN NoRun
                               ELSE [NoRun EXCEPT !.pc = "quoting",
                                                  !.currentAssets = assets]]
    /\ assets' = IF RunsThrough(assets) THEN <<>> ELSE assets
    /\ UNCHANGED <<coreVars, chartVars, totalVars, esppVars, rsuVars,
                   totalValue, dash,
                   store,
                   userOp>>

\* onAuthStateChange without a session: setIsAuthenticated(false) and the
\* three lists are cleared; the next render cleans the autoRefresh effect up
\* (clearInterval).  What is in flight stays in flight.
SignOut ==
    /\ isAuthenticated
    /\ isAuthenticated' = FALSE
    /\ assets' = <<>>
    /\ rsus' = <<>>
    /\ espps' = <<>>
    /\ timer' = [set |-> FALSE, assets |-> <<>>, isRefreshing |-> FALSE]
    /\ UNCHANGED <<coreVars, chartVars, totalVars, totalValue, dash, store,
                   run, userOp,
                   count,
                   rsuStore, rsuOp, esppStore, esppOp>>

\* fetchData: the select of the assets with their purchases returns.
LoadRead ==
    /\ run["load"].pc = "reading"
    /\ LET transformedAssets == selectAssets(store.rows, 1)
       IN  IF RunsThrough(transformedAssets)
           THEN /\ assets' = transformedAssets
                /\ run' = [run EXCEPT !["load"] =
                              [NoRun EXCEPT !.pc = "rsus"]]
           ELSE /\ run' = [run EXCEPT !["load"] =
                              [NoRun EXCEPT !.pc = "quoting",
                                            !.currentAssets = transformedAssets]]
                /\ UNCHANGED assets
    /\ UNCHANGED <<coreVars, chartVars, totalVars, esppVars, rsuVars,
                   totalValue, dash,
                   isAuthenticated, store, userOp,
                   timer, count>>

\* refreshPrices() called from the UI, up to its first await.
ManualRefresh ==
    /\ run["manual"].pc = "idle"
    /\ count.refreshes < MaxRefreshes
    /\ count' = [count EXCEPT !.refreshes = @ + 1]
    /\ IF ~isAuthenticated
       THEN /\ run' = [run EXCEPT !["manual"] =
                          [NoRun EXCEPT !.pc = "done", !.threw = TRUE]]
            /\ UNCHANGED assets
       ELSE IF RunsThrough(assets)
       THEN /\ run' = [run EXCEPT !["manual"] = [NoRun EXCEPT !.pc = "done"]]
            /\ assets' = <<>>
       ELSE /\ run' = [run EXCEPT !["manual"] =
                          [NoRun EXCEPT !.pc = "quoting",
                                        !.currentAssets = assets]]
            /\ UNCHANGED assets
    /\ UNCHANGED <<coreVars, chartVars, totalVars, esppVars, rsuVars,
                   totalValue, dash,
                   isAuthenticated, store, userOp,
                   timer>>

\* autoRefresh() with every call going on to refreshPrices, isRefreshing
\* unread.
TimerFires_unguarded ==
    /\ timer.set
    /\ count.refreshes < MaxRefreshes
    /\ count' = [count EXCEPT !.refreshes = @ + 1]
    /\ IF RunsThrough(timer.assets)
       THEN /\ assets' = <<>>
            /\ UNCHANGED <<run, timer>>
       ELSE /\ run' = [run EXCEPT !["timer"] =
                          [NoRun EXCEPT !.pc = "quoting",
                                        !.currentAssets = timer.assets]]
            /\ timer' = [timer EXCEPT !.isRefreshing = TRUE]
            /\ UNCHANGED assets
    /\ UNCHANGED <<coreVars, chartVars, totalVars, esppVars, rsuVars,
                   totalValue, dash,
                   isAuthenticated, store, userOp>>

\* The 60 s interval fires: autoRefresh() returns at once while its last
\* call is still running (count.skipped counts these ticks), and otherwise
\* calls the refreshPrices of the render that set the effect up.
TimerFires ==
    /\ timer.set
    /\ IF timer.isRefreshing
       THEN /\ count.skipped < MaxRefreshes
            /\ count' = [count EXCEPT !.skipped = @ + 1]
            /\ UNCHANGED <<assets, run, timer>>
       ELSE /\ count.refreshes < MaxRefreshes
            /\ count' = [count EXCEPT !.refreshes = @ + 1]
            /\ IF RunsThrough(timer.assets)
               THEN /\ assets' = <<>>
                    /\ UNCHANGED <<run, timer>>
               ELSE /\ run' = [run EXCEPT !["timer"] =
                                  [NoRun EXCEPT !.pc = "quoting",
                                                !.currentAssets = timer.assets]]
                    /\ timer' = [timer EXCEPT !.isRefreshing = TRUE]
                    /\ UNCHANGED assets
    /\ UNCHANGED <<coreVars, chartVars, totalVars, esppVars, rsuVars,
                   totalValue, dash,
                   isAuthenticated, store, userOp>>

\* The quote requests of run r have settled: fetchLatestPrices returns, and
\* the run sends the prices to the store (refreshPrices after dividing those
\* of TASE holdings by 100).
QuotesSettle(r) ==
    /\ run[r].pc = "quoting"
    /\ \E qos \in [1..Len(run[r].currentAssets) -> QuoteOutcomes] :
        LET latest == fetchLatestPrices(run[r].currentAssets, qos)
            updated == IF r \in Refreshes
                       THEN [i \in 1..Len(latest) |->
                                updatedAssetWithTime(latest[i])]
                       ELSE latest
        IN  /\ run' = [run EXCEPT ![r].pc = "storing", ![r].qos = qos,
                                  ![r].updated = updated]
            /\ store' = [store EXCEPT !.rows = updatePrices(store.rows, updated)]
    /\ UNCHANGED <<coreVars, chartVars, totalVars, esppVars, rsuVars,
                   totalValue, dash,
                   isAuthenticated, assets, userOp,
                   timer, count>>

\* The store has answered the updates of run r: setAssets(the run's list),
\* and the run returns; fetchData goes on to the RSUs.
StoreSettles(r) ==
    /\ run[r].pc = "storing"
    /\ assets' = run[r].updated
    /\ run' = [run EXCEPT ![r] = IF r = "manual"
                                 THEN [run[r] EXCEPT !.pc = "done"]
                                 ELSE IF r = "load"
                                 THEN [NoRun EXCEPT !.pc = "rsus"]
                                 ELSE NoRun]
    /\ timer' = IF r = "timer" THEN [timer EXCEPT !.isRefreshing = FALSE]
                ELSE timer
    /\ userOp' = IF r = "add" THEN NoUserOp ELSE userOp
    /\ UNCHANGED <<coreVars, chartVars, totalVars, esppVars, rsuVars,
                   totalValue, dash,
                   isAuthenticated, store, count>>

\* The caller of refreshPrices takes the result (handleRefresh catches a
\* rejection).
RefreshReturn ==
    /\ run["manual"].pc = "done"
    /\ run' = [run EXCEPT !["manual"] = NoRun]
    /\ UNCHANGED <<coreVars, chartVars, totalVars, esppVars, rsuVars,
                   totalValue, dash,
                   isAuthenticated, assets, store,
                   userOp, timer, count>>

\* A user operation starts: one at a time, signed in, within the bound.
UserOpFree ==
    /\ isAuthenticated
    /\ userOp.pc = "idle"
    /\ count.userOps < MaxUserOps

\* deleteAsset(id) up to the answer of the store: the row is deleted.
DeleteAssetStart(id) ==
    /\ UserOpFree
    /\ id \in IdsOf(assets)
    /\ store' = [store EXCEPT !.rows[id] = NoRow]
    /\ userOp' = [NoUserOp EXCEPT !.pc = "settling", !.op = "delete", !.id = id]
    /\ count' = [count EXCEPT !.userOps = @ + 1]
    /\ UNCHANGED <<coreVars, chartVars, totalVars, esppVars, rsuVars,
                   totalValue, dash,
                   isAuthenticated, assets, run,
                   timer>>

\* addPurchase(assetId, purchase) up to the answer of the store: the lot is
\* inserted; the insert fails when the holding has no row or the table
\* refuses the lot.
AddPurchaseStart(id, lot) ==
    /\ UserOpFree
    /\ id \in IdsOf(assets)
    /\ LET op == [NoUserOp EXCEPT !.pc = "settling", !.op = "purchase",
                                  !.id = id, !.form.hasPurchases = TRUE,
                                  !.form.purchases = <<lot>>]
       IN  IF store.rows[id].present /\ purchasesCheck(lot)
           THEN /\ store' = [store EXCEPT
                                !.rows[id].purchases = Append(@, lot)]
                /\ userOp' = [op EXCEPT !.inserted = <<lot>>]
           ELSE /\ userOp' = [op EXCEPT !.threw = TRUE]
                /\ UNCHANGED store
    /\ count' = [count EXCEPT !.userOps = @ + 1]
    /\ UNCHANGED <<coreVars, chartVars, totalVars, esppVars, rsuVars,
                   totalValue, dash,
                   isAuthenticated, assets, run,
                   timer>>

\* updateAsset(id, updatedFields) up to the answers of the store: the row
\* takes the fields that are defined, and the lots of the holding are
\* replaced when purchases is defined; no lot is inserted without a row.
UpdateAssetStart(id, form) ==
    /\ UserOpFree
    /\ id \in IdsOf(assets)
    /\ LET row == store.rows[id]
           priced == IF form.hasPrice
                     THEN [row EXCEPT !.current_price = form.currentPrice,
                                      !.current_price_overwritten =
                                          form.currentPriceOverwritten]
                     ELSE row
           inserted == IF form.hasPurchases /\ row.present
                       THEN insertedPurchases(form.purchases) ELSE <<>>
       IN  /\ store' = IF ~row.present THEN store
                       ELSE [store EXCEPT !.rows[id] =
                                IF form.hasPurchases
                                THEN [priced EXCEPT !.purchases = inserted]
                                ELSE priced]
           /\ userOp' = [NoUserOp EXCEPT !.pc = "settling", !.op = "update",
                                         !.id = id, !.form = form,
                                         !.inserted = inserted]
    /\ count' = [count EXCEPT !.userOps = @ + 1]
    /\ UNCHANGED <<coreVars, chartVars, totalVars, esppVars, rsuVars,
                   totalValue, dash,
                   isAuthenticated, assets, run,
                   timer>>

\* addAsset(newAsset) up to the answers of the store: the row and its lots
\* are inserted.  The call keeps the assets of the render it was made in.
AddAssetStart(form) ==
    /\ UserOpFree
    /\ store.nextId <= MaxAssets
    /\ run["add"].pc = "idle"
    /\ store' = [rows |-> [store.rows EXCEPT ![store.nextId] =
                              [NoRow EXCEPT !.present = TRUE,
                                            !.exchange = form.exchange,
                                            !.current_price =
                                                IF form.hasPrice
                                                THEN form.currentPrice ELSE 0,
                                            !.current_price_overwritten =
                                                form.currentPriceOverwritten,
                                            !.purchases =
                                                insertedPurchases(
                                                    form.purchases)]],
                 nextId |-> store.nextId + 1]
    /\ userOp' = [NoUserOp EXCEPT !.pc = "settling", !.op = "add",
                                  !.id = store.nextId, !.form = form,
                                  !.closure = assets,
                                  !.inserted =
                                      insertedPurchases(form.purchases)]
    /\ count' = [count EXCEPT !.userOps = @ + 1]
    /\ UNCHANGED <<coreVars, chartVars, totalVars, esppVars, rsuVars,
                   totalValue, dash,
                   isAuthenticated, assets, run,
                   timer>>

\* The holding as updateAsset's setAssets callback leaves it.
updatedAsset(asset, op) ==
    LET priced == IF op.form.hasPrice
                  THEN [asset EXCEPT !.currentPrice = op.form.currentPrice,
                                     !.currentPriceOverwritten =
                                         op.form.currentPriceOverwritten]
                  ELSE asset
    IN  IF op.form.hasPurchases
        THEN [priced EXCEPT !.purchases = op.inserted]
        ELSE priced

\* The callback that the operation hands to setAssets, applied to prev; an
\* operation that threw hands none.
setAssetsCallback(prev, op) ==
    IF op.threw THEN prev
    ELSE IF op.op = "delete"
    THEN SelectSeq(prev, LAMBDA a : a.id # op.id)
    ELSE IF op.op = "purchase"
    THEN [i \in 1..Len(prev) |->
             IF prev[i].id = op.id
             THEN [prev[i] EXCEPT !.purchases = @ \o op.inserted]
             ELSE prev[i]]
    ELSE IF op.op = "update"
    THEN [i \in 1..Len(prev) |->
             IF prev[i].id = op.id THEN updatedAsset(prev[i], op)
             ELSE prev[i]]
    ELSE prev

\* addAsset: the complete asset made of the inserted row and lots.
completeAsset(op) ==
    [id |-> op.id, exchange |-> op.form.exchange,
     currentPrice |-> IF op.form.hasPrice THEN op.form.currentPrice ELSE 0,
     previousPrice |-> 0,
     currentPriceOverwritten |-> op.form.currentPriceOverwritten,
     purchases |-> op.inserted]

\* The store has answered the user operation: it throws the error of the
\* store, or its setAssets(prev => ...) runs.  addAsset goes on to fetch the
\* prices of the assets it kept and of the new one.
UserOpSettles ==
    /\ userOp.pc = "settling"
    /\ IF userOp.op = "add"
       THEN /\ assets' = Append(assets, completeAsset(userOp))
            /\ userOp' = [userOp EXCEPT !.pc = "pricing"]
            /\ run' = [run EXCEPT !["add"] =
                          [NoRun EXCEPT !.pc = "quoting",
                              !.currentAssets =
                                  Append(userOp.closure, completeAsset(userOp))]]
       ELSE /\ assets' = setAssetsCallback(assets, userOp)
            /\ userOp' = NoUserOp
            /\ UNCHANGED run
    /\ UNCHANGED <<coreVars, chartVars, totalVars, esppVars, rsuVars,
                   totalValue, dash,
                   isAuthenticated, store, timer,
                   count>>

(***************************************************************************)
(* PortfolioContext.tsx: the RSU grants                                    *)
(*                                                                         *)
(* An RSU is held with id, totalGranted and vestingSchedule, a vesting     *)
(* entry with id and quantity; quantities are whole shares.  The store is  *)
(* the rsus table and the vesting_entries table, whose rows name their     *)
(* grant in rsu_id.                                                        *)
(***************************************************************************)
EmptyRsuStore ==
    [rsus |-> <<>>, vesting_entries |-> <<>>, nextId |-> 1, nextEntryId |-> 1]

NoRsuForm == [totalGranted |-> 0, vestingSchedule |-> <<>>]

NoRsuOp == [pc |-> "idle", op |-> "none", id |-> 0, form |-> NoRsuForm]

\* The vesting schedules a form is submitted with: the quantity of each entry
\* is typed in on its own (an input with min="1").
Schedules ==
    {<<[quantity |-> 100]>>,
     <<[quantity |-> 60], [quantity |-> 40]>>,
     <<[quantity |-> 60]>>}

\* What RsuForm's handleSubmit passes to addRSU or updateRSU: the total typed
\* in (an input with min="1") and the schedule.
RsuForms == [totalGranted : {100, 150}, vestingSchedule : Schedules]

\* The rows that the insert into vesting_entries returns for the grant id.
vestingResult(id, schedule, firstId) ==
    [i \in 1..Len(schedule) |->
        [id |-> firstId + i - 1, rsu_id |-> id,
         quantity |-> schedule[i].quantity]]

\* vestingResult.map(entry => ({id, date, quantity, isVested}))
vestingScheduleOf(rows) ==
    [i \in 1..Len(rows) |-> [id |-> rows[i].id, quantity |-> rows[i].quantity]]

\* fetchData: the rows of rsus, each with its vesting_entries, transformed.
transformedRSUs(st) ==
    [i \in 1..Len(st.rsus) |->
        [id |-> st.rsus[i].id,
         totalGranted |-> st.rsus[i].total_granted,
         vestingSchedule |->
             vestingScheduleOf(SelectSeq(st.vesting_entries,
                                         LAMBDA e : e.rsu_id = st.rsus[i].id))]]

\* fetchData after the assets: the select of the RSUs with their vesting
\* entries returns, setRSUs(transformedRSUs); fetchData goes on to the ESPPs.
LoadRSUs ==
    /\ run["load"].pc = "rsus"
    /\ rsus' = transformedRSUs(rsuStore)
    /\ run' = [run EXCEPT !["load"] = [NoRun EXCEPT !.pc = "espps"]]
    /\ UNCHANGED <<coreVars, chartVars, totalVars, esppVars, assets,
                   totalValue, dash,
                   isAuthenticated, store,
                   userOp, timer, count, rsuStore, rsuOp>>

\* An RSU operation starts: one form at a time, signed in, within the bound.
RsuOpFree ==
    /\ isAuthenticated
    /\ rsuOp.pc = "idle"
    /\ count.rsuOps < MaxRsuOps

\* RsuForm's handleSubmit in create mode calls addRSU(form): up to the insert
\* into rsus.
AddRSUStart(form) ==
    /\ RsuOpFree
    /\ rsuStore.nextId <= MaxRsus
    /\ count' = [count EXCEPT !.rsuOps = @ + 1]
    /\ rsuOp' = [pc |-> "inserting", op |-> "add", id |-> 0, form |-> form]
    /\ UNCHANGED <<coreVars, chartVars, totalVars, esppVars, assets,
                   totalValue, dash,
                   isAuthenticated, store,
                   run, userOp, timer, rsus, rsuStore>>

\* RsuForm's handleSubmit in edit mode calls updateRSU(id, form) for a grant
\* of the list: up to the update of rsus.
UpdateRSUStart(id, form) ==
    /\ RsuOpFree
    /\ \E i \in 1..Len(rsus) : rsus[i].id = id
    /\ count' = [count EXCEPT !.rsuOps = @ + 1]
    /\ rsuOp' = [pc |-> "updating", op |-> "update", id |-> id, form |-> form]
    /\ UNCHANGED <<coreVars, chartVars, totalVars, esppVars, assets,
                   totalValue, dash,
                   isAuthenticated, store,
                   run, userOp, timer, rsus, rsuStore>>

\* addRSU: the insert into rsus has answered; on an error addRSU throws.
RsuInserted(ok) ==
    /\ rsuOp.pc = "inserting"
    /\ IF ok
       THEN /\ rsuStore' = [rsuStore EXCEPT
                               !.rsus = Append(@,
                                   [id |-> rsuStore.nextId,
                                    total_granted |-> rsuOp.form.totalGranted]),
                               !.nextId = @ + 1]
            /\ rsuOp' = [rsuOp EXCEPT !.pc = "vesting",
                                      !.id = rsuStore.nextId]
       ELSE /\ rsuOp' = NoRsuOp
            /\ UNCHANGED rsuStore
    /\ UNCHANGED <<coreVars, chartVars, totalVars, esppVars, assets,
                   totalValue, dash,
                   providerVars,
                   rsus>>

\* updateRSU: the update of rsus has answered (total_granted is among the
\* fields sent when updatedFields.totalGranted is truthy).
RsuUpdated(ok) ==
    /\ rsuOp.pc = "updating"
    /\ IF ok
       THEN /\ rsuStore' = [rsuStore EXCEPT !.rsus =
                   [i \in 1..Len(@) |->
                       IF @[i].id = rsuOp.id /\ rsuOp.form.totalGranted # 0
                       THEN [@[i] EXCEPT
                                !.total_granted = rsuOp.form.totalGranted]
                       ELSE @[i]]]
            /\ rsuOp' = [rsuOp EXCEPT !.pc = "deleting"]
       ELSE /\ rsuOp' = NoRsuOp
            /\ UNCHANGED rsuStore
    /\ UNCHANGED <<coreVars, chartVars, totalVars, esppVars, assets,
                   totalValue, dash,
                   providerVars,
                   rsus>>

\* updateRSU: the delete of the grant's vesting entries has answered.
EntriesDeleted(ok) ==
    /\ rsuOp.pc = "deleting"
    /\ IF ok
       THEN /\ rsuStore' = [rsuStore EXCEPT !.vesting_entries =
                               SelectSeq(@, LAMBDA e : e.rsu_id # rsuOp.id)]
            /\ rsuOp' = [rsuOp EXCEPT !.pc = "vesting"]
       ELSE /\ rsuOp' = NoRsuOp
            /\ UNCHANGED rsuStore
    /\ UNCHANGED <<coreVars, chartVars, totalVars, esppVars, assets,
                   totalValue, dash,
                   providerVars,
                   rsus>>

\* The callback given to setRSUs by addRSU (append newRSU) and by updateRSU
\* ({...rsu, ...updatedFields, vestingSchedule}).
setRSUsCallback(prev, op, rows) ==
    IF op.op = "add"
    THEN Append(prev, [id |-> op.id, totalGranted |-> op.form.totalGranted,
                       vestingSchedule |-> vestingScheduleOf(rows)])
    ELSE [i \in 1..Len(prev) |->
             IF prev[i].id = op.id
             THEN [prev[i] EXCEPT !.totalGranted = op.form.totalGranted,
                                  !.vestingSchedule = vestingScheduleOf(rows)]
             ELSE prev[i]]

\* addRSU and updateRSU: the insert into vesting_entries has answered,
\* setRSUs, and the operation returns; on an error it throws.
VestingInserted(ok) ==
    /\ rsuOp.pc = "vesting"
    /\ LET rows == vestingResult(rsuOp.id, rsuOp.form.vestingSchedule,
                                 rsuStore.nextEntryId)
       IN  IF ok
           THEN /\ rsuStore' = [rsuStore EXCEPT
                                   !.vesting_entries = @ \o rows,
                                   !.nextEntryId = @ + Len(rows)]
                /\ rsus' = setRSUsCallback(rsus, rsuOp, rows)
           ELSE UNCHANGED <<rsus, rsuStore>>
    /\ rsuOp' = NoRsuOp
    /\ UNCHANGED <<coreVars, chartVars, totalVars, esppVars, assets,
                   totalValue, dash,
                   providerVars>>

(***************************************************************************)
(* EsppForm.tsx and PortfolioContext.tsx: the ESPP purchases               *)
(*                                                                         *)
(* An ESPP is held with id, cycleStartDate and cycleEndDate, Date values   *)
(* in milliseconds.  A row of the espps table holds the two dates in       *)
(* columns of type date: whole days.                                       *)
(***************************************************************************)
DayMs == 86400000

\* The value a date column takes from a Date sent to the store.
dateColumn(t) == t \div DayMs

\* new Date(row.cycle_start_date): the midnight of the day.
dateOfColumn(d) == d * DayMs

\* A row satisfies CONSTRAINT valid_cycle_dates.
valid_cycle_dates(row) ==
    row.cycle_end_date > row.cycle_start_date

\* The purchase the user saved in an earlier session.
PersistedEsppStore ==
    [rows |-> <<[id |-> 1, cycle_start_date |-> 1, cycle_end_date |-> 2]>>,
     nextId |-> 2]

\* The dates a form holds: the midnight of a day picked in a date input, or
\* the moment the form was opened (new Date()).
CycleDates == {DayMs, DayMs + 43200000, 2 * DayMs}

\* purchaseCycle of EsppForm at the submit.
EsppForms == [startDate : CycleDates, endDate : CycleDates]

NoEsppForm == [startDate |-> 0, endDate |-> 0]

NoEsppOp ==
    [pc |-> "idle", mode |-> "none", id |-> 0, form |-> NoEsppForm,
     error |-> "", storeCalls |-> 0]

\* The validation of the cycle dates with < for <=.
cycleDatesRejected_strict(form) ==
    form.endDate < form.startDate

\* handleSubmit: new Date(purchaseCycle.endDate) <= new Date(purchaseCycle.startDate)
cycleDatesRejected(form) ==
    form.endDate <= form.startDate

\* fetchData: the rows of espps transformed.
transformedESPPs(rows) ==
    [i \in 1..Len(rows) |->
        [id |-> rows[i].id,
         cycleStartDate |-> dateOfColumn(rows[i].cycle_start_date),
         cycleEndDate |-> dateOfColumn(rows[i].cycle_end_date)]]

\* fetchData after the RSUs: the select of the ESPPs returns,
\* setESPPs(transformedESPPs), and fetchData returns.
LoadESPPs ==
    /\ run["load"].pc = "espps"
    /\ espps' = transformedESPPs(esppStore.rows)
    /\ run' = [run EXCEPT !["load"] = NoRun]
    /\ UNCHANGED <<coreVars, chartVars, totalVars, rsuVars, assets,
                   totalValue, dash,
                   isAuthenticated, store, userOp, timer, count, esppStore,
                   esppOp>>

\* EsppForm's handleSubmit, in create mode (id 0) or in edit mode for the
\* purchase id of the list: the checks, and addESPP or updateESPP up to the
\* store call.
EsppSubmit(mode, id, form) ==
    /\ esppOp.pc # "storing"
    /\ count.esppOps < MaxEsppOps
    /\ IF mode = "edit"
       THEN \E i \in 1..Len(espps) : espps[i].id = id
       ELSE id = 0 /\ esppStore.nextId <= MaxEspps
    /\ count' = [count EXCEPT !.esppOps = @ + 1]
    /\ LET op == [NoEsppOp EXCEPT !.mode = mode, !.id = id, !.form = form]
       IN  esppOp' =
              IF ~isAuthenticated
              THEN [op EXCEPT !.error = "Please sign in to manage ESPPs"]
              ELSE IF cycleDatesRejected(form)
              THEN [op EXCEPT !.error = "End date must be after start date"]
              ELSE [op EXCEPT !.pc = "storing", !.storeCalls = 1]
    /\ UNCHANGED <<coreVars, chartVars, totalVars, rsuVars, assets,
                   totalValue, dash,
                   isAuthenticated, store, run, userOp, timer, espps,
                   esppStore>>

\* The row that the submitted form makes in the espps table.
esppRow(id, form) ==
    [id |-> id, cycle_start_date |-> dateColumn(form.startDate),
     cycle_end_date |-> dateColumn(form.endDate)]

\* The callback given to setESPPs by addESPP (append newEspp, made of the
\* row the store returned) and by updateESPP (the submitted fields laid over
\* the purchase).
setESPPsCallback(prev, op, row) ==
    IF op.mode = "create"
    THEN Append(prev, [id |-> row.id,
                       cycleStartDate |-> dateOfColumn(row.cycle_start_date),
                       cycleEndDate |-> dateOfColumn(row.cycle_end_date)])
    ELSE [i \in 1..Len(prev) |->
             IF prev[i].id = op.id
             THEN [prev[i] EXCEPT !.cycleStartDate = op.form.startDate,
                                  !.cycleEndDate = op.form.endDate]
             ELSE prev[i]]

\* addESPP and updateESPP: the store has answered the insert or the update;
\* it refuses a row that breaks valid_cycle_dates, and the request may fail.
\* On an error the operation throws and the form shows it; otherwise
\* setESPPs, and the form closes.
EsppStored(ok) ==
    /\ esppOp.pc = "storing"
    /\ LET id == IF esppOp.mode = "create" THEN esppStore.nextId ELSE esppOp.id
           row == esppRow(id, esppOp.form)
       IN  IF ok /\ valid_cycle_dates(row)
           THEN /\ esppStore' =
                      IF esppOp.mode = "create"
                      THEN [rows |-> Append(esppStore.rows, row),
                            nextId |-> esppStore.nextId + 1]
                      ELSE [esppStore EXCEPT !.rows =
                               [i \in 1..Len(@) |->
                                   IF @[i].id = id THEN row ELSE @[i]]]
                /\ espps' = setESPPsCallback(espps, esppOp, row)
                /\ esppOp' = [esppOp EXCEPT !.pc = "idle"]
           ELSE /\ esppOp' = [esppOp EXCEPT !.pc = "idle",
                                            !.error = "Failed to save ESPP"]
                /\ UNCHANGED <<espps, esppStore>>
    /\ UNCHANGED <<coreVars, chartVars, totalVars, rsuVars, assets,
                   totalValue, dash,
                   providerVars>>

(***************************************************************************)
(* PortfolioContext.tsx: calculateTotal and the selected currency          *)
(***************************************************************************)
SelectableCurrencies == {"ILS", "USD"}

\* asset.tradingCurrency: the holdings of the model were saved with the
\* currency AssetForm starts with.
tradingCurrency(asset) == "USD"

\* The tables fetchExchangeRates returns: the provider's, or the defaults.
ReturnedTables == {LiveRates, DEFAULT_RATES}

\* convertCurrency(amount, from, to) with the table that its
\* fetchExchangeRates returned: equal currencies return the amount before any
\* rates are asked for.
convertCurrency(rates, amount, from, to) ==
    IF from = to THEN amount
    ELSE convertCurrencyWith(rates, amount, from, to).value

\* calculateTotal's total over the holdings as in the currency cur, tables[i]
\* being the table returned to the conversion of holding i.
RECURSIVE totalOf(_, _, _, _)
totalOf(as, cur, tables, n) ==
    IF n = 0 THEN 0
    ELSE totalOf(as, cur, tables, n - 1)
         + convertCurrency(tables[n], AssetValue(as[n]), tradingCurrency(as[n]), cur)

\* No conversion of the call asks for rates: Promise.all resolves without
\* waiting for anything, and setTotalValue follows at once.
NeedsNoRates(as, cur) ==
    \A i \in 1..Len(as) : tradingCurrency(as[i]) = cur

\* setCurrency(c) from the currency selector.
SetCurrency(c) ==
    /\ c # selectedCurrency
    /\ selectedCurrency' = c
    /\ UNCHANGED <<coreVars, chartVars, esppVars, rsuVars, providerVars,
                   assets,
                   totalValue, dash, calc>>

\* useEffect(() => { calculateTotal(); }, [assets, selectedCurrency]): the
\* render after a change of either calls calculateTotal with the assets and
\* the currency of that render.
CalculateTotalStart ==
    /\ calc.deps # <<assets, selectedCurrency>>
    /\ Len(calc.inFlight) < MaxCalcs
    /\ IF NeedsNoRates(assets, selectedCurrency)
       THEN /\ totalValue' =
                   totalOf(assets, selectedCurrency,
                           [i \in 1..Len(assets) |-> NoRates], Len(assets))
            /\ calc' = [calc EXCEPT !.deps = <<assets, selectedCurrency>>]
       ELSE /\ calc' = [deps |-> <<assets, selectedCurrency>>,
                        inFlight |-> Append(calc.inFlight,
                                            [assets |-> assets,
                                             currency |-> selectedCurrency])]
            /\ UNCHANGED totalValue
    /\ UNCHANGED <<coreVars, chartVars, esppVars, rsuVars, providerVars,
                   assets, dash,
                   selectedCurrency>>

\* The conversions of the k-th calculateTotal call in flight have returned,
\* each with the table its fetchExchangeRates gave it: setTotalValue(total).
CalculateTotalSettles(k) ==
    /\ k \in 1..Len(calc.inFlight)
    /\ LET c == calc.inFlight[k]
       IN  \E tables \in [1..Len(c.assets) -> ReturnedTables] :
              totalValue' = totalOf(c.assets, c.currency, tables, Len(c.assets))
    /\ calc' = [calc EXCEPT !.inFlight =
                   SubSeq(@, 1, k - 1) \o SubSeq(@, k + 1, Len(@))]
    /\ UNCHANGED <<coreVars, chartVars, esppVars, rsuVars, providerVars,
                   assets, dash,
                   selectedCurrency>>

(***************************************************************************)
(* AllocationChart.tsx: generateData                                       *)
(***************************************************************************)
AllocationModes == {"asset", "broker", "exchange"}

\* The fields of Asset that the chart reads.
ChartHoldings ==
    [ticker : {"AAPL", "TEVA"}, broker : {"IBKR", "Meitav"},
     exchange : {"NASDAQ", "TASE"}, currentPrice : {110000, 250000},
     purchases : {<<[price |-> 100000, quantity |-> 10, currency |-> "USD"]>>}]

ChartPortfolios == UNION {[1..n -> ChartHoldings] : n \in 0..MaxAssets}

\* The key of the slice a holding is counted in.
sliceKey(asset, by) ==
    IF by = "asset" THEN asset.ticker
    ELSE IF by = "broker" THEN asset.broker
    ELSE asset.exchange

\* aggregatedData.get(k) || 0, the Map being the sequence of its entries in
\* insertion order.
mapGet(m, k) ==
    IF \E j \in 1..Len(m) : m[j].name = k
    THEN m[CHOOSE j \in 1..Len(m) : m[j].name = k].value
    ELSE 0

\* aggregatedData.set(k, v): a key that is there keeps its place.
mapSet(m, k, v) ==
    IF \E j \in 1..Len(m) : m[j].name = k
    THEN [j \in 1..Len(m) |->
             IF m[j].name = k THEN [name |-> k, value |-> v] ELSE m[j]]
    ELSE Append(m, [name |-> k, value |-> v])

\* The loop of generateData over the first n holdings, values[i] being the
\* converted value of holding i: by asset the value is set, by broker and by
\* exchange it is added to the value of the key.
RECURSIVE aggregatedData(_, _, _, _)
aggregatedData(as, values, by, n) ==
    IF n = 0 THEN <<>>
    ELSE LET m == aggregatedData(as, values, by, n - 1)
             k == sliceKey(as[n], by)
         IN  IF by = "asset" THEN mapSet(m, k, values[n])
             ELSE mapSet(m, k, mapGet(m, k) + values[n])

\* x put into a list sorted by falling value, behind the entries that are
\* not smaller (Array.prototype.sort is stable).
insertByValue(t, x) ==
    LET k == Cardinality({j \in 1..Len(t) : t[j].value >= x.value})
    IN  SubSeq(t, 1, k) \o <<x>> \o SubSeq(t, k + 1, Len(t))

\* .sort((a, b) => b.value - a.value)
RECURSIVE sortByValue(_)
sortByValue(s) ==
    IF s = <<>> THEN <<>>
    ELSE insertByValue(sortByValue(SubSeq(s, 1, Len(s) - 1)), s[Len(s)])

RECURSIVE SumSeq(_)
SumSeq(values) ==
    IF values = <<>> THEN 0 ELSE values[1] + SumSeq(Tail(values))

\* chartData: the entries with their percentage (value / totalValue) * 100,
\* kept as the fraction num / den, sorted.
chartData(m, total) ==
    sortByValue([j \in 1..Len(m) |->
                    [name |-> m[j].name, value |-> m[j].value,
                     percentage |-> [num |-> 100 * m[j].value, den |-> total]]])

\* setAllocationBy(by) from the buttons of the chart.
SetAllocationBy(by) ==
    /\ by # chart.allocationBy
    /\ chart' = [chart EXCEPT !.allocationBy = by, !.pending = TRUE]
    /\ UNCHANGED <<coreVars, totalVars, esppVars, rsuVars, providerVars,
                   assets, totalValue, dash>>

\* The effect runs generateData(): nothing for an empty portfolio; otherwise
\* every holding is converted (tables[i] being the table its conversion is
\* given), the values are aggregated and setData(chartData).
GenerateData ==
    /\ chart.pending
    /\ IF assets = <<>>
       THEN chart' = [chart EXCEPT !.pending = FALSE]
       ELSE \E tables \in [1..Len(assets) -> ReturnedTables] :
              LET values == [i \in 1..Len(assets) |->
                                convertCurrency(tables[i],
                                    assets[i].currentPrice
                                        * calculateTotalShares(assets[i]),
                                    tradingCurrency(assets[i]),
                                    selectedCurrency)]
                  total == SumSeq(values)
                  m == aggregatedData(assets, values, chart.allocationBy,
                                      Len(assets))
              IN  chart' = [chart EXCEPT !.data = chartData(m, total),
                                         !.totalValue = total,
                                         !.pending = FALSE]
    /\ UNCHANGED <<coreVars, totalVars, esppVars, rsuVars, providerVars,
                   assets, totalValue, dash>>

(***************************************************************************)
(* The specifications                                                      *)
(***************************************************************************)
CoreInit ==
    /\ now = 0
    /\ ticks = 0
    /\ exchangeRatesCache = NULL
    /\ fetchCount = 0
    /\ call = [c \in Callers |-> Idle]
    /\ val = NoVal

\* The AllocationChart is mounted and its effect has not run yet.
NoChart ==
    [allocationBy |-> "asset", data |-> <<>>, totalValue |-> 0,
     pending |-> TRUE]

\* The calculateTotal effect has run on mount, over no holdings, and its
\* call has returned.
NoCalc == [deps |-> <<<<>>, "ILS">>, inFlight |-> <<>>]

\* The provider is mounted, nobody is signed in yet, and the store holds
\* what an earlier session left.
ProviderInit ==
    /\ isAuthenticated = FALSE
    /\ store = PersistedStore
    /\ run = [r \in RunIds |-> NoRun]
    /\ userOp = NoUserOp
    /\ timer = [set |-> FALSE, assets |-> <<>>, isRefreshing |-> FALSE]
    /\ count = [signIns |-> 0, refreshes |-> 0, skipped |-> 0, userOps |-> 0,
               rsuOps |-> 0, esppOps |-> 0]
    /\ rsus = <<>>
    /\ rsuStore = EmptyRsuStore
    /\ rsuOp = NoRsuOp
    /\ espps = <<>>
    /\ esppStore = PersistedEsppStore
    /\ esppOp = NoEsppOp
    /\ selectedCurrency = "ILS"
    /\ calc = NoCalc
    /\ chart = NoChart

ContextInit ==
    /\ assets = <<>>
    /\ totalValue = 0
    /\ dash = NoDash
    /\ ProviderInit

Init ==
    /\ CoreInit
    /\ ContextInit

Next ==
    \/ \E d \in TickSteps : Tick(d)
    \/ \E c \in Callers : CallRates(c)
    \/ \E c \in Callers : \E fo \in FetchOutcomes : FetchSettles(c, fo)
    \/ \E c \in Callers : \E jo \in JsonOutcomes : JsonSettles(c, jo)
    \/ \E c \in Callers : Return(c)

Spec == Init /\ [][Next]_vars

\* One caller converts while the other one asks for the rates.
NextConvert ==
    \/ \E d \in TickSteps : Tick(d)
    \/ \E a \in Amounts : \E f, t \in ArgCurrencies : CallConvert("c1", a, f, t)
    \/ CallRates("c2")
    \/ \E c \in Callers : \E fo \in FetchOutcomes : FetchSettles(c, fo)
    \/ \E c \in Callers : \E jo \in JsonOutcomes : JsonSettles(c, jo)
    \/ \E c \in Callers : Return(c)

SpecConvert == Init /\ [][NextConvert]_vars

\* The valuation functions run over the cache and the converter, one
\* valuation at a time and within one lifetime of the cached table.
NextValuation ==
    \/ \E h \in Holdings : \E t \in Targets : StartAverageCost(h, t)
    \/ \E h \in Holdings : \E t \in Targets : StartProfitLoss(h, t)
    \/ \E as \in Portfolios : \E t \in Targets : StartTotal(as, t)
    \/ LotConverted
    \/ CurrentConverted
    \/ TotalConverted
    \/ ValuationReturn
    \/ \E c \in Callers : \E fo \in FetchOutcomes : FetchSettles(c, fo)
    \/ \E c \in Callers : \E jo \in JsonOutcomes : JsonSettles(c, jo)

SpecValuation == Init /\ [][NextValuation]_vars

\* calculateAverageCost over holdings that have lots.
NextAverage ==
    \/ \E h \in AverageHoldings : \E t \in Targets : StartAverageCost(h, t)
    \/ LotConverted
    \/ ValuationReturn
    \/ \E c \in Callers : \E fo \in FetchOutcomes : FetchSettles(c, fo)
    \/ \E c \in Callers : \E jo \in JsonOutcomes : JsonSettles(c, jo)

SpecAverage == Init /\ [][NextAverage]_vars

\* The valuation functions while the rates provider is out of reach: every
\* fetch rejects or is answered with a non-success status.
NextOutage ==
    \/ \E h \in Holdings : \E t \in Targets : StartAverageCost(h, t)
    \/ \E h \in Holdings : \E t \in Targets : StartProfitLoss(h, t)
    \/ \E as \in Portfolios : \E t \in Targets : StartTotal(as, t)
    \/ LotConverted
    \/ CurrentConverted
    \/ TotalConverted
    \/ ValuationReturn
    \/ \E c \in Callers : \E fo \in {"reject", "notok"} : FetchSettles(c, fo)

SpecOutage == Init /\ [][NextOutage]_vars

\* convertCurrency called with currency codes of which one may be a code that
\* no table knows (the codes are strings at run time: a stored row can hold
\* any).
NextUnknownCode ==
    \/ \E a \in Amounts : \E f, t \in ArgCurrencies \cup UnknownCodes :
          CallConvert("c1", a, f, t)
    \/ \E fo \in FetchOutcomes : FetchSettles("c1", fo)
    \/ \E jo \in JsonOutcomes : JsonSettles("c1", jo)
    \/ Return("c1")

SpecUnknownCode == Init /\ [][NextUnknownCode]_vars

\* A caller converts an amount and converts the result back.
NextRoundTrip ==
    \/ \E a \in TripAmounts : \E f, t \in ArgCurrencies :
          CallConvert("c1", a, f, t)
    \/ CallConvertBack
    \/ \E c \in Callers : \E fo \in FetchOutcomes : FetchSettles(c, fo)
    \/ \E c \in Callers : \E jo \in JsonOutcomes : JsonSettles(c, jo)
    \/ RoundTripReturn

SpecRoundTrip == Init /\ [][NextRoundTrip]_vars

\* The valuation functions under the scheduling the runtime guarantees: a
\* continuation whose promise has settled runs, and a response that arrived is
\* read. Nothing makes the answer to a fetch arrive: the fetch in
\* fetchExchangeRates carries no timeout and no abort signal.
SpecValuationFair ==
    /\ Init /\ [][NextValuation]_vars
    /\ WF_vars(LotConverted)
    /\ WF_vars(CurrentConverted)
    /\ WF_vars(TotalConverted)
    /\ WF_vars(ValuationReturn)
    /\ WF_vars(\E c \in Callers : \E jo \in JsonOutcomes : JsonSettles(c, jo))

\* The Dashboard computes its figures from the assets and the totalValue
\* that the context hands it.
DashboardInit ==
    /\ CoreInit
    /\ assets \in DashboardPortfolios
    /\ totalValue \in TotalValues
    /\ dash = NoDash
    /\ ProviderInit

NextDashboard ==
    DashboardRender

SpecDashboard == DashboardInit /\ [][NextDashboard]_vars

\* The holdings of a signed-in user: the initial load, refreshes on demand
\* and by the timer, and the user's operations on the holdings.
NextPortfolio ==
    \/ SignIn
    \/ LoadRead
    \/ LoadRSUs
    \/ LoadESPPs
    \/ ManualRefresh
    \/ TimerFires
    \/ \E r \in RunIds : QuotesSettle(r)
    \/ \E r \in RunIds : StoreSettles(r)
    \/ RefreshReturn
    \/ \E id \in AssetIds : DeleteAssetStart(id)
    \/ \E id \in AssetIds : AddPurchaseStart(id, NewLot)
    \/ \E id \in AssetIds : \E form \in UpdateForms : UpdateAssetStart(id, form)
    \/ \E form \in AddForms : AddAssetStart(form)
    \/ UserOpSettles

SpecPortfolio == Init /\ [][NextPortfolio]_vars

\* The same without the interval: every refresh is one the user asked for.
NextOnDemand ==
    \/ SignIn
    \/ LoadRead
    \/ LoadRSUs
    \/ LoadESPPs
    \/ ManualRefresh
    \/ \E r \in RunIds : QuotesSettle(r)
    \/ \E r \in RunIds : StoreSettles(r)
    \/ RefreshReturn
    \/ \E id \in AssetIds : DeleteAssetStart(id)
    \/ \E id \in AssetIds : AddPurchaseStart(id, NewLot)
    \/ \E id \in AssetIds : \E form \in UpdateForms : UpdateAssetStart(id, form)
    \/ \E form \in AddForms : AddAssetStart(form)
    \/ UserOpSettles

SpecOnDemand == Init /\ [][NextOnDemand]_vars

\* Sessions with refreshes: sign-in and sign-out, the load, and the refreshes
\* the user asks for and those of the interval, each followed up to the
\* start of its round of quote requests (refreshPrices sets no limit on the
\* time its requests take).
NextRefresh ==
    \/ SignIn
    \/ SignOut
    \/ LoadRead
    \/ LoadRSUs
    \/ LoadESPPs
    \/ ManualRefresh
    \/ TimerFires
    \/ QuotesSettle("load")
    \/ StoreSettles("load")

SpecRefresh == Init /\ [][NextRefresh]_vars

\* The total of the portfolio: the load brings the holdings, the user
\* changes the selected currency, and calculateTotal runs after each change.
NextTotal ==
    \/ SignIn
    \/ LoadRead
    \/ QuotesSettle("load")
    \/ StoreSettles("load")
    \/ LoadRSUs
    \/ LoadESPPs
    \/ \E c \in SelectableCurrencies : SetCurrency(c)
    \/ CalculateTotalStart
    \/ \E k \in 1..MaxCalcs : CalculateTotalSettles(k)

SpecTotal == Init /\ [][NextTotal]_vars

\* The AllocationChart over the portfolios it can be rendered with.
ChartInit ==
    /\ CoreInit
    /\ assets \in ChartPortfolios
    /\ totalValue = 0
    /\ dash = NoDash
    /\ ProviderInit

NextChart ==
    \/ \E by \in AllocationModes : SetAllocationBy(by)
    \/ GenerateData

SpecChart == ChartInit /\ [][NextChart]_vars

\* The RSU grants of a signed-in user: the initial load, and the grants added
\* and edited through RsuForm.
NextRSU ==
    \/ SignIn
    \/ LoadRead
    \/ QuotesSettle("load")
    \/ StoreSettles("load")
    \/ LoadRSUs
    \/ LoadESPPs
    \/ \E form \in RsuForms : AddRSUStart(form)
    \/ \E id \in 1..MaxRsus : \E form \in RsuForms : UpdateRSUStart(id, form)
    \/ \E ok \in BOOLEAN : RsuInserted(ok)
    \/ \E ok \in BOOLEAN : RsuUpdated(ok)
    \/ \E ok \in BOOLEAN : EntriesDeleted(ok)
    \/ \E ok \in BOOLEAN : VestingInserted(ok)

SpecRSU == Init /\ [][NextRSU]_vars

\* The holdings of a signed-in user who saves lots through addAsset,
\* updateAsset and addPurchase, lots with no shares among them.
NextLots ==
    \/ SignIn
    \/ LoadRead
    \/ \E r \in RunIds : QuotesSettle(r)
    \/ \E r \in RunIds : StoreSettles(r)
    \/ LoadRSUs
    \/ LoadESPPs
    \/ \E form \in ZeroLotAddForms : AddAssetStart(form)
    \/ \E id \in AssetIds : \E form \in ZeroLotUpdateForms :
          UpdateAssetStart(id, form)
    \/ \E id \in AssetIds : \E lot \in {NewLot, ZeroLot} :
          AddPurchaseStart(id, lot)
    \/ UserOpSettles

SpecLots == Init /\ [][NextLots]_vars

\* The ESPP purchases of a user: the initial load, and the purchases added
\* and edited through EsppForm.
NextESPP ==
    \/ SignIn
    \/ LoadRead
    \/ QuotesSettle("load")
    \/ StoreSettles("load")
    \/ LoadRSUs
    \/ LoadESPPs
    \/ \E form \in EsppForms : EsppSubmit("create", 0, form)
    \/ \E id \in 1..MaxEspps : \E form \in EsppForms :
          EsppSubmit("edit", id, form)
    \/ \E ok \in BOOLEAN : EsppStored(ok)

SpecESPP == Init /\ [][NextESPP]_vars

(***************************************************************************)
(* The exchange-rate cache                                                 *)
(***************************************************************************)
\* The cached table is fresh by the clock: one exists and it is younger than
\* one hour.
FreshByClock ==
    exchangeRatesCache.set /\ now - exchangeRatesCache.timestamp < 3600000

\* Caller c starts a call in this step.
Starts(c) ==
    call[c].pc = "idle" /\ call'[c].pc # "idle"

\* C1: a fetchExchangeRates call made while a cached table is younger than
\* 3,600,000 ms returns exactly the cached rates, issues no fetch and leaves
\* the cache as it is; no step at all issues a fetch while the cached table is
\* that young, so the calls of one TTL window add no fetch to the one that
\* filled the cache.
C1_FreshCacheServesCalls ==
    [][/\ \A c \in Callers :
            (Starts(c) /\ call'[c].op = "rates" /\ FreshByClock)
            => /\ call'[c].pc = "done"
               /\ call'[c].rates = exchangeRatesCache.rates
               /\ ~call'[c].issued
               /\ ~call'[c].threw
               /\ exchangeRatesCache' = exchangeRatesCache
       /\ FreshByClock => fetchCount' = fetchCount]_vars

\* A second call, 3,599,999 ms after the only fetch filled the cache, has been
\* served from the cache.
C1_Witness ==
    \E c \in Callers :
        /\ call[c].pc = "done" /\ call[c].op = "rates" /\ ~call[c].issued
        /\ exchangeRatesCache.set
        /\ call[c].rates = exchangeRatesCache.rates
        /\ now - exchangeRatesCache.timestamp = 3599999
        /\ fetchCount = 1

\* C2: a fetchExchangeRates call made while no table is cached, or the cached
\* one is 3,600,000 ms old or older, issues exactly one fetch (fetches are
\* issued one at a time and only by a starting call); when the response is ok
\* and its body carries a rates table, the cache becomes that table with the
\* time of the update and the call returns that table.
C2_StaleCacheRefetches ==
    [][/\ \A c \in Callers :
            (Starts(c) /\ call'[c].op = "rates" /\ ~FreshByClock)
            => /\ call'[c].pc = "fetching"
               /\ call'[c].issued
               /\ fetchCount' = fetchCount + 1
               /\ exchangeRatesCache' = exchangeRatesCache
       /\ fetchCount' # fetchCount
            => /\ fetchCount' = fetchCount + 1
               /\ \E c \in Callers : Starts(c) /\ call'[c].pc = "fetching"
       /\ \A c \in Callers : \A jo \in JsonOutcomes :
            (jo.kind = "table" /\ JsonSettles(c, jo))
            => /\ exchangeRatesCache' =
                      [set |-> TRUE, rates |-> jo.rates, timestamp |-> now]
               /\ call'[c].pc = "done"
               /\ call'[c].rates = jo.rates
               /\ ~call'[c].threw]_vars

\* A call made when the cached table was exactly 3,600,000 ms old has fetched
\* again and replaced it.
C2_Witness ==
    \E c \in Callers :
        /\ call[c].pc = "done" /\ call[c].op = "rates" /\ call[c].issued
        /\ call[c].rates = LiveRates
        /\ exchangeRatesCache =
               [set |-> TRUE, rates |-> LiveRates, timestamp |-> 3600000]
        /\ now = 3600000
        /\ fetchCount = 2

\* The fetch of caller c fails in this step: the request rejects, the response
\* is not ok, or its body carries no rates table.
FetchFails(c) ==
    \/ FetchSettles(c, "reject")
    \/ FetchSettles(c, "notok")
    \/ \E jo \in JsonOutcomes : jo.kind # "table" /\ JsonSettles(c, jo)

\* C3: when the fetch fails, fetchExchangeRates returns the default table
\* without throwing and the cache stays exactly as it was.
C3_FailedFetchReturnsDefaults ==
    [][\A c \in Callers :
          FetchFails(c)
          => /\ call'[c].pc = "done"
             /\ call'[c].rates = DEFAULT_RATES
             /\ ~call'[c].threw
             /\ exchangeRatesCache' = exchangeRatesCache]_vars

\* A call has returned the default table after a failed fetch while a stale
\* table, fetched at time 0, is still cached with its old timestamp.
C3_Witness ==
    \E c \in Callers :
        /\ call[c].pc = "done" /\ call[c].op = "rates" /\ call[c].issued
        /\ call[c].rates = DEFAULT_RATES
        /\ exchangeRatesCache =
               [set |-> TRUE, rates |-> LiveRates, timestamp |-> 0]
        /\ now >= 3600000

\* The call of caller c is waiting for its response or for the body.
InFlight(c) ==
    call[c].pc \in {"fetching", "parsing"}

\* The cache is empty, or it is one table of the provider with one time.
CacheIsOneResponse ==
    \/ exchangeRatesCache = NULL
    \/ /\ exchangeRatesCache.set
       /\ exchangeRatesCache.rates \in ProviderTables
       /\ exchangeRatesCache.rates # DEFAULT_RATES
       /\ exchangeRatesCache.timestamp \in 0..now

\* C14: concurrent fetchExchangeRates calls that start while the cache is
\* empty or stale each issue their own fetch, also while another call is in
\* flight; the cache changes only when one call stores the table of its own
\* validated response with the time of that update, so the cache is always
\* empty or the whole table of one response with one timestamp, never a
\* mixture and never the default table; and every call returns a whole
\* fetched table or the default table.
C14_ConcurrentCallsKeepCacheWhole ==
    [][/\ \A c, d \in Callers :
            (c # d /\ InFlight(d) /\ Starts(c) /\ ~FreshByClock)
            => /\ call'[c].pc = "fetching"
               /\ call'[c].issued
               /\ fetchCount' = fetchCount + 1
               /\ call'[d] = call[d]
       /\ exchangeRatesCache' # exchangeRatesCache
            => \E c \in Callers : \E jo \in JsonOutcomes :
                   /\ jo.kind = "table"
                   /\ call[c].pc = "parsing" /\ call'[c].pc = "done"
                   /\ call'[c].rates = jo.rates
                   /\ exchangeRatesCache' =
                          [set |-> TRUE, rates |-> jo.rates, timestamp |-> now]
       /\ CacheIsOneResponse'
       /\ \A c \in Callers :
            call'[c].pc = "done"
            => /\ call'[c].rates \in ProviderTables \cup {DEFAULT_RATES}
               /\ ~call'[c].threw]_vars

\* Two calls fetched at the same time and got different tables: each one
\* returned its own, and the cache holds the table of the later response.
C14_Witness ==
    /\ call["c1"].pc = "done" /\ call["c1"].issued
    /\ call["c2"].pc = "done" /\ call["c2"].issued
    /\ call["c1"].rates = LiveRates
    /\ call["c2"].rates = PartialRates
    /\ fetchCount = 2
    /\ exchangeRatesCache.set
    /\ exchangeRatesCache.rates = PartialRates

(***************************************************************************)
(* The currency converter                                                  *)
(***************************************************************************)
\* C4: convertCurrency(x, C, C) returns x as it is, not rounded, whatever the
\* cache holds and whatever the other caller's fetch is doing; the call obtains
\* no rate table, issues no fetch and leaves the cache as it is.
C4_SameCurrencyIsIdentity ==
    [][\A c \in Callers :
          (Starts(c) /\ call'[c].op = "convert" /\ call'[c].from = call'[c].to)
          => /\ call'[c].pc = "done"
             /\ call'[c].value = call'[c].amount
             /\ ~call'[c].threw
             /\ ~call'[c].issued
             /\ call'[c].rates = NoRates
             /\ fetchCount' = fetchCount
             /\ exchangeRatesCache' = exchangeRatesCache]_vars

\* convertCurrency(1.005, EUR, EUR) has returned 1.005 while the cached table
\* is stale and the other caller's fetch is in flight.
C4_Witness ==
    /\ call["c1"].pc = "done" /\ call["c1"].op = "convert"
    /\ call["c1"].from = "EUR" /\ call["c1"].to = "EUR"
    /\ call["c1"].amount = 1005 /\ call["c1"].value = 1005
    /\ exchangeRatesCache.set
    /\ now - exchangeRatesCache.timestamp >= 3600000
    /\ call["c2"].pc = "fetching"

\* v is the fraction n / d (d > 0) rounded to two decimals: in thousandths,
\* v is a multiple of 10 and is at most 5 away from n / d.
IsRoundedTo2(v, n, d) ==
    /\ v % 10 = 0
    /\ 2 * Abs(v * d - n) <= 10 * d

\* A finished conversion between two different currencies.
Converted(c) ==
    /\ call[c].pc = "done" /\ call[c].op = "convert"
    /\ call[c].from # call[c].to

\* C5: for from # to with both currencies in the rate table, the result is
\* amountInUSD * rate[to] (amountInUSD when to = USD) rounded to two decimals,
\* with amountInUSD = amount when from = USD and amount / rate[from] otherwise;
\* 100 USD at an ILS rate of 3.65 gives 365.
C5_ConversionFormula ==
    \A c \in Callers :
        LET cl == call[c]
            r == cl.rates
        IN  (Converted(c) /\ cl.from \in DOMAIN r /\ cl.to \in DOMAIN r)
            => /\ ~cl.threw
               /\ cl.from = "USD"
                    => IsRoundedTo2(cl.value, cl.amount * r[cl.to], 100)
               /\ cl.to = "USD"
                    => IsRoundedTo2(cl.value, cl.amount * 100, r[cl.from])
               /\ (cl.from # "USD" /\ cl.to # "USD")
                    => IsRoundedTo2(cl.value, cl.amount * r[cl.to], r[cl.from])
               /\ (cl.amount = 100000 /\ cl.from = "USD" /\ cl.to = "ILS"
                     /\ r["ILS"] = 365)
                    => cl.value = 365000

\* convertCurrency(100, USD, ILS) has returned 365 with the fetched table of
\* the unit test.
C5_Witness ==
    /\ Converted("c1")
    /\ call["c1"].amount = 100000
    /\ call["c1"].from = "USD" /\ call["c1"].to = "ILS"
    /\ call["c1"].rates = PartialRates
    /\ call["c1"].issued
    /\ call["c1"].value = 365000

\* C6: for from # to, when the table obtained from fetchExchangeRates has no
\* rate for from or for to, convertCurrency does not throw and returns the
\* amount it was given, unconverted and not rounded.
C6_MissingRateReturnsAmount ==
    \A c \in Callers :
        (Converted(c)
           /\ (call[c].from \notin DOMAIN call[c].rates
                 \/ call[c].to \notin DOMAIN call[c].rates))
        => /\ ~call[c].threw
           /\ call[c].value = call[c].amount

\* convertCurrency(1.005, ILS, EUR) has returned 1.005 with a fetched table
\* that has no EUR rate.
C6_Witness ==
    /\ Converted("c1")
    /\ call["c1"].amount = 1005
    /\ call["c1"].from = "ILS" /\ call["c1"].to = "EUR"
    /\ call["c1"].rates = PartialRates
    /\ call["c1"].value = 1005

\* C7: when the rates request rejects during convertCurrency(amount, from, to)
\* with from # to, convertCurrency does not throw and returns the amount it was
\* given (convertCurrency(100, USD, EUR) returns 100).
C7_RejectedFetchReturnsAmount ==
    [][\A c \in Callers :
          (call[c].op = "convert" /\ FetchSettles(c, "reject"))
          => /\ call'[c].pc = "done"
             /\ ~call'[c].threw
             /\ call'[c].value = call[c].amount]_vars

(***************************************************************************)
(* The valuation functions                                                 *)
(***************************************************************************)
RECURSIVE SumCost(_, _)
\* The sum over the lots of (converted price * quantity).
SumCost(purchases, converted) ==
    IF purchases = <<>> THEN 0
    ELSE converted[1] * purchases[1].quantity
         + SumCost(Tail(purchases), Tail(converted))

RECURSIVE SumQty(_)
\* The sum of the lots' quantities.
SumQty(purchases) ==
    IF purchases = <<>> THEN 0
    ELSE purchases[1].quantity + SumQty(Tail(purchases))

\* v is what the conversion of amount from one currency to another one gives
\* with some rate table a call can obtain: the rounded pivot formula, or the
\* amount itself when the table lacks one of the two rates.
IsConversion(v, amount, from, to) ==
    \E r \in ProviderTables \cup {DEFAULT_RATES} :
        IF from \in DOMAIN r /\ to \in DOMAIN r
        THEN IsRoundedTo2(v, amount * (IF to = "USD" THEN 100 ELSE r[to]),
                          IF from = "USD" THEN 100 ELSE r[from])
        ELSE v = amount

\* val.converted holds what convertCurrency returned for each lot: the lot's
\* own price for a lot in the target currency, a conversion of it otherwise.
LotsConverted ==
    /\ Len(val.converted) = Len(val.asset.purchases)
    /\ \A i \in 1..Len(val.converted) :
          LET lot == val.asset.purchases[i]
          IN  IF lot.currency = val.target
              THEN val.converted[i] = lot.price
              ELSE IsConversion(val.converted[i], lot.price, lot.currency,
                                val.target)

\* calculateAverageCost has returned.
AverageDone ==
    val.pc = "done" /\ val.fn = "avg" /\ LotsConverted

TheExampleLot == [price |-> 100000, quantity |-> 10, currency |-> "USD"]

\* C8 as claimed: the average cost is the quotient itself,
\* (sum of converted price * quantity) / (sum of quantities); 0 for no lots;
\* exactly 100 for the single lot {100, 10, USD} valued in USD.
C8_AverageCostIsTheQuotient ==
    (val.pc = "done" /\ val.fn = "avg")
    => /\ AverageDone
       /\ val.asset.purchases = <<>> => val.result = 0
       /\ val.asset.purchases # <<>>
            => val.result * SumQty(val.asset.purchases)
                 = SumCost(val.asset.purchases, val.converted)
       /\ (val.asset.purchases = <<TheExampleLot>> /\ val.target = "USD")
            => val.result = 100000

\* C8 as amended: the average cost is that quotient rounded to two decimals.
C8_AverageCostIsTheRoundedQuotient ==
    (val.pc = "done" /\ val.fn = "avg")
    => /\ AverageDone
       /\ val.asset.purchases = <<>> => val.result = 0
       /\ val.asset.purchases # <<>>
            => IsRoundedTo2(val.result,
                            SumCost(val.asset.purchases, val.converted),
                            SumQty(val.asset.purchases))
       /\ (val.asset.purchases = <<TheExampleLot>> /\ val.target = "USD")
            => val.result = 100000

\* The average cost of the lots {100, 10, USD} and {110, 5, USD} in USD,
\* 1550 / 15 = 103.333..., has been returned as 103.33.
C8_Witness ==
    /\ val.pc = "done" /\ val.fn = "avg" /\ val.target = "USD"
    /\ val.asset.purchases =
           <<TheExampleLot,
             [price |-> 110000, quantity |-> 5, currency |-> "USD"]>>
    /\ val.result = 103330

\* calculateProfitLoss has returned for a holding with shares; val.avgCost is
\* what calculateAverageCost returned and val.currentValue what the conversion
\* of the current price returned, both whole numbers of cents.
ProfitLossDone ==
    /\ val.pc = "done" /\ val.fn = "pl"
    /\ SumQty(val.asset.purchases) # 0
    /\ LotsConverted
    /\ IsRoundedTo2(val.avgCost, SumCost(val.asset.purchases, val.converted),
                    SumQty(val.asset.purchases))
    /\ IF val.asset.tradingCurrency = val.target
       THEN val.currentValue = val.asset.currentPrice
       ELSE IsConversion(val.currentValue, val.asset.currentPrice,
                         val.asset.tradingCurrency, val.target)
    /\ val.avgCost % 10 = 0 /\ val.currentValue % 10 = 0

\* The parts of C9 that hold as claimed: {0, 0} for a holding of no shares;
\* absolute = (currentValue - averageCost) * totalShares rounded to two
\* decimals; percentage 0 when averageCost is not positive; {100.00, 10.00}
\* for averageCost 100, currentValue 110, totalShares 10.
ProfitLossCommon ==
    /\ SumQty(val.asset.purchases) = 0
         => val.absolute = 0 /\ val.percentage = 0
    /\ SumQty(val.asset.purchases) # 0
         => /\ ProfitLossDone
            /\ IsRoundedTo2(val.absolute,
                            (val.currentValue - val.avgCost)
                                * SumQty(val.asset.purchases), 1)
            /\ val.avgCost <= 0 => val.percentage = 0
            /\ (val.avgCost = 100000 /\ val.currentValue = 110000
                  /\ SumQty(val.asset.purchases) = 10)
                 => val.absolute = 100000 /\ val.percentage = 10000

\* In cents and hundredths of a percent: percentage * averageCost against
\* (currentValue - averageCost) * 100.
PercentTimesCost == (val.percentage \div 10) * (val.avgCost \div 10)
GainTimes100 == ((val.currentValue - val.avgCost) \div 10) * 10000

\* C9 as claimed: the percentage is (currentValue - averageCost) /
\* averageCost * 100 itself when averageCost > 0.
C9_PercentageIsTheQuotient ==
    (val.pc = "done" /\ val.fn = "pl")
    => /\ ProfitLossCommon
       /\ (SumQty(val.asset.purchases) # 0 /\ val.avgCost > 0)
            => /\ val.percentage % 10 = 0
               /\ PercentTimesCost = GainTimes100

\* C9 as amended: the percentage is that quotient rounded to two decimals.
C9_PercentageIsTheRoundedQuotient ==
    (val.pc = "done" /\ val.fn = "pl")
    => /\ ProfitLossCommon
       /\ (SumQty(val.asset.purchases) # 0 /\ val.avgCost > 0)
            => /\ val.percentage % 10 = 0
               /\ 2 * Abs(PercentTimesCost - GainTimes100)
                    <= val.avgCost \div 10

\* For the lots {100, 10, USD} and {110, 5, USD} at a current price of 110 USD,
\* valued in USD (average cost 103.33), calculateProfitLoss has returned
\* {100.05, 6.46}: 6.67 / 103.33 * 100 = 6.4550...
C9_Witness ==
    /\ val.pc = "done" /\ val.fn = "pl" /\ val.target = "USD"
    /\ val.asset.tradingCurrency = "USD"
    /\ val.asset.purchases =
           <<TheExampleLot,
             [price |-> 110000, quantity |-> 5, currency |-> "USD"]>>
    /\ val.avgCost = 103330
    /\ val.absolute = 100050
    /\ val.percentage = 6460

RECURSIVE SumOfConversions(_)
\* The sum of what the conversions of the first n holdings returned; the
\* conversion of holding i ran as call Slots[i].
SumOfConversions(n) ==
    IF n = 0 THEN 0 ELSE SumOfConversions(n - 1) + call[Slots[n]].value

\* C10: the portfolio total is the sum over the holdings of
\* convert(currentPrice * totalShares, tradingCurrency, targetCcy), totalShares
\* being the sum of the lot quantities; an empty portfolio gives 0 and a
\* holding of no lots adds 0.
C10_TotalIsSumOfConversions ==
    (val.pc = "done" /\ val.fn = "total")
    => /\ \A i \in 1..Len(val.assets) :
            LET h == val.assets[i]
                cl == call[Slots[i]]
                worth == h.currentPrice * SumQty(h.purchases)
            IN  /\ cl.pc = "done" /\ cl.op = "convert" /\ ~cl.threw
                /\ cl.amount = worth
                /\ cl.from = h.tradingCurrency /\ cl.to = val.target
                /\ IF cl.from = cl.to
                   THEN cl.value = worth
                   ELSE IsConversion(cl.value, worth, cl.from, cl.to)
                /\ h.purchases = <<>> => cl.value = 0
       /\ val.result = SumOfConversions(Len(val.assets))
       /\ val.assets = <<>> => val.result = 0

\* The total in ILS of a holding of no lots and a holding of 15 shares at
\* 110 USD, converted at 3.65, is 6022.50: the first holding added 0.
C10_Witness ==
    /\ val.pc = "done" /\ val.fn = "total" /\ val.target = "ILS"
    /\ Len(val.assets) = 2
    /\ val.assets[1].purchases = <<>>
    /\ val.assets[1].tradingCurrency = "USD"
    /\ val.assets[2].tradingCurrency = "USD"
    /\ SumQty(val.assets[2].purchases) = 15
    /\ call["c1"].value = 0
    /\ call["c2"].value = 6022500
    /\ val.result = 6022500

(***************************************************************************)
(* The dashboard                                                           *)
(***************************************************************************)
\* The change of one holding in its own trading currency.
NativeChange(h) ==
    (h.currentPrice - h.previousPrice) * SumQty(h.purchases)

RECURSIVE SumNativeChange(_, _)
\* The sum of the native changes of holdings i..Len(as).
SumNativeChange(as, i) ==
    IF i > Len(as) THEN 0
    ELSE NativeChange(as[i]) + SumNativeChange(as, i + 1)

\* The holding of the scenario: 187.32 now, 185.92 before, lots of 10 and 5.
IsScenarioHolding(h) ==
    /\ h.currentPrice = 187320
    /\ h.previousPrice = 185920
    /\ Len(h.purchases) = 2
    /\ h.purchases[1].quantity = 10
    /\ h.purchases[2].quantity = 5

\* C11: the daily change the dashboard shows is the sum over the holdings of
\* (currentPrice - previousPrice) * totalShares, every term in the holding's
\* own currency and totalShares the sum of the lot quantities (0 without
\* lots); for the scenario holding alone totalShares is 15 and the daily
\* change 21.00; the percentage is dailyChange / totalValue * 100 when
\* totalValue > 0 and 0 otherwise.
C11_DailyChangeIsNativeSum ==
    dash.rendered =>
        /\ dash.dailyChange = SumNativeChange(assets, 1)
        /\ \A i \in 1..Len(assets) :
               assets[i].purchases = <<>> => NativeChange(assets[i]) = 0
        /\ (Len(assets) = 1 /\ IsScenarioHolding(assets[1])) =>
               /\ calculateTotalShares(assets[1]) = 15
               /\ dash.dailyChange = 21000
        /\ totalValue > 0 =>
               dash.dailyChangePercent =
                   [num |-> 100 * SumNativeChange(assets, 1), den |-> totalValue]
        /\ totalValue <= 0 => dash.dailyChangePercent.num = 0

C11_Witness ==
    /\ dash.rendered
    /\ Len(assets) = 1
    /\ IsScenarioHolding(assets[1])
    /\ totalValue = 2809800
    /\ dash.dailyChange = 21000
    /\ dash.dailyChangePercent = [num |-> 2100000, den |-> 2809800]

(***************************************************************************)
(* Price refreshes                                                         *)
(***************************************************************************)
\* This step is a step of a refreshPrices call.
RefreshStep ==
    \E r \in Refreshes : run'[r] # run[r]

\* The refreshPrices call r completes in this step: its setAssets runs.
RefreshCompletes(r) ==
    run[r].pc = "storing" /\ run'[r].pc # "storing"

\* C12: no price refresh, by the timer or on demand, overwrites the
\* currentPrice of a holding whose currentPriceOverwritten flag is set,
\* neither in memory nor in the store.
C12_OverrideSurvivesRefresh ==
    [][RefreshStep =>
          \A id \in AssetIds :
              /\ (/\ id \in IdsOf(assets) /\ id \in IdsOf(assets')
                  /\ AssetOf(assets, id).currentPriceOverwritten) =>
                     AssetOf(assets', id).currentPrice
                         = AssetOf(assets, id).currentPrice
              /\ (/\ store.rows[id].present
                  /\ store.rows[id].current_price_overwritten) =>
                     store'.rows[id].current_price = store.rows[id].current_price
      ]_vars

\* What a refresh is to leave alone: the holdings and the lots of each.
HoldingsAndLots(as) ==
    [i \in 1..Len(as) |-> [id |-> as[i].id, purchases |-> as[i].purchases]]

\* C13: a price refresh changes only the price fields of the holdings: when
\* it completes, whatever addAsset, deleteAsset, updateAsset and addPurchase
\* did while it was in flight, the holdings in memory and the lots of each are
\* still the ones the user operations produced; nothing is lost or comes back.
C13_RefreshKeepsHoldingsAndLots ==
    [][\A r \in Refreshes :
          RefreshCompletes(r) =>
              HoldingsAndLots(assets') = HoldingsAndLots(assets)
      ]_vars

\* C16: when a refresh gets no quote for a holding (no data, or a failed
\* request), the holding's currentPrice and previousPrice stay as they were,
\* and the refresh does not reject.
C16_NoQuoteKeepsLastPrices ==
    [][\A r \in Refreshes :
          RefreshCompletes(r) =>
              /\ ~run'[r].threw
              /\ \A i \in 1..Len(run[r].currentAssets) :
                     LET id == run[r].currentAssets[i].id
                     IN  (/\ run[r].qos[i].kind # "chart"
                          /\ id \in IdsOf(assets) /\ id \in IdsOf(assets')) =>
                             /\ AssetOf(assets', id).currentPrice
                                    = AssetOf(assets, id).currentPrice
                             /\ AssetOf(assets', id).previousPrice
                                    = AssetOf(assets, id).previousPrice
      ]_vars


(***************************************************************************)
(* Network failures                                                        *)
(***************************************************************************)
\* The value of the finished call cl is its amount converted with the default
\* table, rounded to two decimals.
IsDefaultConversion(cl) ==
    IsRoundedTo2(cl.value, cl.amount * DEFAULT_RATES[cl.to],
                 DEFAULT_RATES[cl.from])

\* C15: when the rates request rejects or returns a non-success status,
\* fetchExchangeRates, convertCurrency, calculateAverageCost,
\* calculateProfitLoss and calculateTotal raise nothing and each returns a
\* usable value: the default table, the amount converted with it, the average
\* and the profit of the converted prices, and the sum of the converted values.
C15_FailedRatesRaiseNothing ==
    /\ \A c \in Callers :
          call[c].pc = "done"
          => /\ ~call[c].threw
             /\ call[c].issued
                => /\ call[c].rates = DEFAULT_RATES
                   /\ IsDefaultConversion(call[c])
             /\ ~call[c].issued => call[c].value = call[c].amount
    /\ val.pc = "done"
       => /\ val.fn = "avg"
             => (val.result > 0 <=> val.asset.purchases # <<>>)
          /\ (val.fn = "pl" /\ val.shares > 0)
             => /\ val.avgCost > 0
                /\ val.currentValue > 0
                /\ val.absolute = (val.currentValue - val.avgCost) * val.shares
          /\ val.fn = "total"
             => /\ val.result = SumOfConversions(Len(val.assets))
                /\ (val.result > 0
                    <=> \E i \in 1..Len(val.assets) :
                           val.assets[i].purchases # <<>>)

\* The profit of 5 shares bought at 365 ILS and quoted at 110 USD, valued in
\* USD after the rate request of the lot's conversion failed: a cost of 100.00
\* by the default table, a profit of 50.00.
C15_Witness ==
    /\ val.pc = "done" /\ val.fn = "pl" /\ val.target = "USD"
    /\ val.asset.tradingCurrency = "USD"
    /\ val.asset.purchases
       = <<[price |-> 365000, quantity |-> 5, currency |-> "ILS"]>>
    /\ call["c1"].pc = "done" /\ ~call["c1"].issued
    /\ fetchCount = 1
    /\ exchangeRatesCache.set = FALSE
    /\ val.avgCost = 100000
    /\ val.absolute = 50000


(***************************************************************************)
(* Unknown currency codes                                                  *)
(***************************************************************************)
\* The finished conversion of caller c was given a currency code that is
\* missing from the table it obtained and from the default table.
UnknownCodeGiven(c) ==
    /\ call[c].pc = "done" /\ call[c].op = "convert"
    /\ \E code \in {call[c].from, call[c].to} :
          /\ code \notin DOMAIN call[c].rates
          /\ code \notin DOMAIN DEFAULT_RATES

\* C17 as claimed: convertCurrency signals a failure to its caller when it is
\* given a currency code missing from both the live and the default table, and
\* in this case only.
C17_UnknownCodeSignalsFailure ==
    \A c \in Callers :
        (call[c].pc = "done" /\ call[c].op = "convert")
        => (call[c].threw <=> UnknownCodeGiven(c))

\* C17: given a currency code missing from both the live and the default
\* table, convertCurrency returns the amount it was given, unconverted; no
\* call of convertCurrency signals a failure to its caller.
C17_UnknownCodeReturnsAmount ==
    \A c \in Callers :
        (call[c].pc = "done" /\ call[c].op = "convert")
        => /\ ~call[c].threw
           /\ UnknownCodeGiven(c) => call[c].value = call[c].amount

\* convertCurrency(100, BTC, USD) has returned 100 after the provider's table
\* arrived.
C17_Witness ==
    /\ UnknownCodeGiven("c1")
    /\ call["c1"].amount = 100000
    /\ call["c1"].from = "BTC" /\ call["c1"].to = "USD"
    /\ call["c1"].issued
    /\ call["c1"].rates = LiveRates
    /\ call["c1"].value = 100000
    /\ ~call["c1"].threw


(***************************************************************************)
(* The round trip of a conversion                                          *)
(***************************************************************************)
\* Caller c2 has converted back what caller c1's conversion returned.
RoundTripDone ==
    /\ call["c1"].pc = "done" /\ call["c1"].op = "convert"
    /\ call["c2"].pc = "done" /\ call["c2"].op = "convert"
    /\ call["c2"].amount = call["c1"].value
    /\ call["c2"].from = call["c1"].to
    /\ call["c2"].to = call["c1"].from

\* Both conversions ran with the same rate table, which has a rate for both
\* currencies.
SameTableWithBoth ==
    /\ call["c1"].rates = call["c2"].rates
    /\ call["c1"].from \in DOMAIN call["c1"].rates
    /\ call["c1"].to \in DOMAIN call["c1"].rates

\* C18: convert(convert(x, A, B), B, A), both calls using the same table r
\* with rates for A and B, differs from x by no more than the two roundings
\* allow: 0.005 for the rounding of the way back, and 0.005 * r(A) / r(B) for
\* the rounding of the way there, carried back at the rate r(A) / r(B); for
\* A = B the result is x.
C18_RoundTripWithinRounding ==
    RoundTripDone
    => LET x == call["c1"].amount
           z == call["c2"].value
           A == call["c1"].from
           B == call["c1"].to
           r == call["c1"].rates
       IN  /\ A = B => z = x
           /\ (A # B /\ SameTableWithBoth)
              => r[B] * Abs(z - x) <= 5 * r[A] + 5 * r[B]

\* 1.005 ILS came back as 1.02 ILS: 0.28 USD on the way there, both ways with
\* a table of 3.65 ILS per USD.
C18_Witness ==
    /\ RoundTripDone /\ SameTableWithBoth
    /\ call["c1"].amount = 1005
    /\ call["c1"].from = "ILS" /\ call["c1"].to = "USD"
    /\ call["c1"].rates["ILS"] = 365
    /\ call["c1"].value = 280
    /\ call["c2"].value = 1020


(***************************************************************************)
(* Termination                                                             *)
(***************************************************************************)
\* The bound on the fetches of a run leaves room for those the valuation in
\* progress may still issue: one for each later lot and one for the current
\* price.
RoomForFetches ==
    fetchCount + (Len(val.asset.purchases) - val.i) + 1 <= MaxFetches

\* C19: no call blocks for ever: a call of fetchExchangeRates or
\* convertCurrency that waits for the rates provider eventually returns, and
\* calculateAverageCost, calculateProfitLoss and calculateTotal eventually
\* return, also when the provider never answers.
C19_EveryCallReturns ==
    /\ \A c \in Callers :
          (call[c].pc \in {"fetching", "parsing"}) ~> (call[c].pc = "done")
    /\ (val.pc \in {"lots", "current", "total"} /\ RoomForFetches)
       ~> (val.pc = "done")


(***************************************************************************)
(* RSU grants                                                              *)
(***************************************************************************)
RECURSIVE SumEntries(_)
\* The sum of the quantities of a vesting schedule.
SumEntries(schedule) ==
    IF schedule = <<>> THEN 0
    ELSE schedule[1].quantity + SumEntries(Tail(schedule))

\* Each vesting entry of the list belongs to exactly one grant: no entry id
\* occurs twice, in one schedule or in two.
EntriesHaveOneOwner ==
    \A i, j \in 1..Len(rsus) :
        \A k \in 1..Len(rsus[i].vestingSchedule) :
            \A l \in 1..Len(rsus[j].vestingSchedule) :
                rsus[i].vestingSchedule[k].id = rsus[j].vestingSchedule[l].id
                => (i = j /\ k = l)

\* C20: in every reachable state, for every RSU grant of the list (created by
\* addRSU or changed by updateRSU), each vesting entry belongs to exactly one
\* grant and the quantities of the grant's vesting entries add up to its
\* totalGranted.
C20_VestingSumsToTotalGranted ==
    /\ EntriesHaveOneOwner
    /\ \A i \in 1..Len(rsus) :
          SumEntries(rsus[i].vestingSchedule) = rsus[i].totalGranted


NonPositiveLotGiven ==
    /\ userOp.pc = "settling"
    /\ userOp.op \in {"add", "update", "purchase"}
    /\ \E i \in 1..Len(userOp.form.purchases) :
          \/ userOp.form.purchases[i].price <= 0
          \/ userOp.form.purchases[i].quantity <= 0

\* C22: addAsset, updateAsset and addPurchase given a lot whose price or
\* quantity is not positive reject, and leave the holdings of the portfolio
\* state as they were: no holding is created or kept without that lot.
C22_NonPositiveLotRejected ==
    [][(NonPositiveLotGiven /\ userOp' # userOp)
       => (userOp.threw /\ assets' = assets)]_vars


(***************************************************************************)
(* Refreshes that overlap                                                  *)
(***************************************************************************)
\* Price run r has sent its quote requests or its store updates and has not
\* yet called setAssets.
RunInFlight(r) == run[r].pc \in {"quoting", "storing"}

\* This step is refreshPrices() called from the UI, signed in, over a
\* portfolio that has holdings.
ManualRequested ==
    /\ run["manual"].pc = "idle" /\ run'["manual"].pc # "idle"
    /\ isAuthenticated
    /\ assets # <<>>

\* This step is a tick of the interval whose refreshPrices has holdings.
TickRequested ==
    /\ timer.set
    /\ timer.assets # <<>>
    /\ \/ count'.skipped # count.skipped
       \/ count'.refreshes # count.refreshes /\ run'["manual"] = run["manual"]

\* The step starts a round of quote requests of run r over the holdings as,
\* and leaves the other runs as they are.
StartsOwnRound(r, as) ==
    /\ run' # run
    /\ run'[r].pc = "quoting"
    /\ run'[r].currentAssets = as
    /\ \A q \in RunIds \ {r} : run'[q] = run[q]

ExpectedTotals(as, cur) ==
    {totalOf(as, cur, tables, Len(as)) :
        tables \in [1..Len(as) -> ReturnedTables]}

\* Every calculateTotal call has returned, the one for the present holdings
\* and currency among them.
CalculationsDone ==
    /\ calc.inFlight = <<>>
    /\ calc.deps = <<assets, selectedCurrency>>

\* C24: once every total calculation in flight has completed, totalValue is
\* the sum over the present holdings of currentPrice * totalShares converted
\* from the trading currency to the present selected currency; a calculation
\* started earlier never overwrites the result of a later one.
C24_TotalIsOfPresentState ==
    CalculationsDone => totalValue \in ExpectedTotals(assets, selectedCurrency)

(***************************************************************************)
(* The lists of a signed-out session                                       *)
(***************************************************************************)
\* C25: while nobody is signed in the holdings, the RSU grants and the ESPP
\* purchases in memory are empty, also when a fetchData, a refresh or an
\* addAsset that started before the sign-out completes after it, and the
\* interval of the timer-initiated refresh is not set.
C25_SignedOutListsStayEmpty ==
    ~isAuthenticated =>
        /\ assets = <<>>
        /\ rsus = <<>>
        /\ espps = <<>>
        /\ ~timer.set

(***************************************************************************)
(* The prices of a TASE holding                                            *)
(***************************************************************************)
\* Every quote request of price run r returned a chart result.
AllQuoted(r) ==
    \A i \in 1..Len(run[r].qos) : run[r].qos[i].kind = "chart"

\* C26: on every path that writes quoted prices (fetchData, refreshPrices,
\* addAsset) a TASE holding is stored with the provider's price and previous
\* close divided by 100 once, so that all paths store the same prices for the
\* same quote and a repeated refresh leaves them as they are.
C26_TasePricesDividedOnce ==
    \A r \in RunIds :
        (run[r].pc = "storing" /\ AllQuoted(r)) =>
            \A i \in 1..Len(run[r].updated) :
                LET asset == run[r].updated[i]
                IN  asset.exchange = "TASE" =>
                        /\ asset.currentPrice =
                               agorotToShekels(regularMarketPrice("TASE"))
                        /\ asset.previousPrice =
                               agorotToShekels(chartPreviousClose("TASE"))
                        /\ store.rows[asset.id].present =>
                               /\ store.rows[asset.id].current_price =
                                      asset.currentPrice
                               /\ store.rows[asset.id].previous_price =
                                      asset.previousPrice

(***************************************************************************)
(* After a failed fetch of the rates                                       *)
(***************************************************************************)
\* The call of caller d has returned the default table after its fetch
\* failed.
Defaulted(d) ==
    call[d].pc = "done" /\ call[d].issued /\ call[d].rates = DEFAULT_RATES

\* The fetch of caller c succeeds in this step: the body carries a table.
FetchSucceeds(c) ==
    /\ call[c].pc = "parsing" /\ call'[c].pc = "done"
    /\ call'[c].rates \in ProviderTables

\* C27: a failed fetch is not remembered.  The default table is never in the
\* cache and a failure makes no cached table fresh; a call that starts after
\* another call came back with the defaults, while no fresh table is cached,
\* issues a fetch of its own; and the call whose fetch succeeds leaves its
\* table in the cache, fresh.
C27_FailureIsNotRemembered ==
    [][/\ exchangeRatesCache.set => exchangeRatesCache.rates # DEFAULT_RATES
       /\ \A c \in Callers :
            (FetchFails(c) /\ ~FreshByClock) => ~FreshByClock'
       /\ \A c, d \in Callers :
            (c # d /\ Defaulted(d) /\ Starts(c) /\ call'[c].op = "rates"
                   /\ ~FreshByClock)
            => /\ call'[c].pc = "fetching"
               /\ fetchCount' = fetchCount + 1
       /\ \A c \in Callers :
            FetchSucceeds(c)
            => /\ FreshByClock'
               /\ exchangeRatesCache'.rates = call'[c].rates
               /\ exchangeRatesCache'.timestamp = now]_vars

\* One call came back with the defaults while the cached table was stale,
\* and the fetch of the other call has then filled the cache anew.
C27_Witness ==
    \E c, d \in Callers :
        /\ Defaulted(d)
        /\ call[c].pc = "done" /\ call[c].issued
        /\ call[c].rates = PartialRates
        /\ exchangeRatesCache =
               [set |-> TRUE, rates |-> PartialRates, timestamp |-> now]
        /\ now >= 3600000
        /\ fetchCount = 3

(***************************************************************************)
(* One failed quote among several                                          *)
(***************************************************************************)
\* What price run r stores for its i-th holding when the quote of that
\* holding is taken by itself.
WithOwnQuote(r, i) ==
    LET latest == latestPriceOf(run[r].currentAssets[i], run[r].qos[i])
    IN  IF r \in Refreshes THEN updatedAssetWithTime(latest) ELSE latest

\* C28: in a price refresh over several holdings, the failed quote request
\* of one holding does not keep the holdings whose quotes arrived from
\* getting their new currentPrice and previousPrice.
C28_FailedQuoteSparesTheOthers ==
    \A r \in Refreshes :
        (run[r].pc = "storing" /\ Len(run[r].currentAssets) > 1) =>
            \A i \in 1..Len(run[r].currentAssets) :
                run[r].qos[i].kind = "chart" =>
                    /\ run[r].updated[i].currentPrice
                           = WithOwnQuote(r, i).currentPrice
                    /\ run[r].updated[i].previousPrice
                           = WithOwnQuote(r, i).previousPrice

(***************************************************************************)
(* The slices of the allocation chart                                      *)
(***************************************************************************)
RECURSIVE SumSlices(_)
SumSlices(data) ==
    IF data = <<>> THEN 0 ELSE data[1].value + SumSlices(Tail(data))

\* C29: in every grouping mode the values of the slices add up to the sum
\* of the converted values of the holdings, and with a positive total the
\* percentages add up to 100, also when holdings share a ticker, a broker or
\* an exchange.
C29_SlicesAddUpToTotal ==
    (~chart.pending /\ assets # <<>>) =>
        /\ SumSlices(chart.data) = chart.totalValue
        /\ chart.totalValue > 0 =>
              /\ \A j \in 1..Len(chart.data) :
                     chart.data[j].percentage.den = chart.totalValue
              /\ 100 * SumSlices(chart.data) = 100 * chart.totalValue

(***************************************************************************)
(* The average cost between the prices of the lots                         *)
(***************************************************************************)
\* calculateAverageCost has returned the average of a holding with lots.
AverageCostDone ==
    val.pc = "done" /\ val.fn = "avg" /\ Len(val.asset.purchases) > 0

\* The smallest and the largest of the converted prices of the lots.
ConvertedPrices == {val.converted[i] : i \in 1..Len(val.converted)}

MinConverted == CHOOSE p \in ConvertedPrices : \A q \in ConvertedPrices : p <= q

MaxConverted == CHOOSE p \in ConvertedPrices : \A q \in ConvertedPrices : p >= q

\* C30 as stated: the average cost of a holding with lots, all of positive
\* quantity, lies between the smallest and the largest converted price of
\* its lots, and is p when every lot has the converted price p.
C30_AverageBetweenLotPrices ==
    AverageCostDone =>
        /\ MinConverted <= val.result
        /\ val.result <= MaxConverted

\* C30, amended: the average cost lies between the smallest and the largest
\* converted price of the lots, each rounded to 2 decimal places, and is p
\* rounded to 2 decimal places when every lot has the converted price p.
C30_AverageBetweenRoundedLotPrices ==
    AverageCostDone =>
        /\ toFixed2(MinConverted, 1) <= val.result
        /\ val.result <= toFixed2(MaxConverted, 1)
        /\ MinConverted = MaxConverted => val.result = toFixed2(MinConverted, 1)

\* The average cost 100.00 of two lots that were both bought at 100.004.
C30_Witness ==
    /\ AverageCostDone
    /\ val.converted = <<100004, 100004>>
    /\ val.result = 100000

====
